---- MODULE Spec2Model ----
(***************************************************************************)
(* The authenticated request pipeline of happiestbaby_api (api.py,         *)
(* request.py): the Credential tuple, the single authentication task slot, *)
(* the request gate, and the asyncio event loop that runs them.            *)
(*                                                                         *)
(* Scheduling: asyncio runs ready callbacks in FIFO order and a coroutine  *)
(* runs without interruption from one suspension point to the next.        *)
(* readyQ is the loop's ready queue; one Run* action is one such step.     *)
(***************************************************************************)
EXTENDS Integers, Sequences, FiniteSets, TLC

\* Python's None (api.py:55-60 initialises the Credential with it).
None == -1

\* Bounds of the model.
MaxOps == 2
MaxTime == 1
MaxTasks == 3
MaxUpdates == 3
MaxClock == 360
MaxImperial == 1200

\* api.py:39
DEFAULT_TOKEN_REFRESH == 3600

\* api.py:37, in seconds
DEFAULT_DEVICE_UPDATE_INTERVAL == 120

\* request.py:17
DEFAULT_REQUEST_RETRIES == 5

\* request.py:43: the cap on the backoff, in seconds.
BackoffCap == 5

\* The user coroutines that call the client concurrently.
Callers == {1, 2}
TaskIds == 1..MaxTasks

\* Provider-declared lifetimes (ExpiresIn) the identity endpoint may answer
\* with.
ExpiresInValues == {1, 4}

VARIABLES
    credentials,          \* API.__credentials: [username, password]
    invalid_credentials,  \* API._invalid_credentials
    security_token,       \* API._security_token: <<token, refresh, expires, last>>
    authentication_task,  \* API._authentication_task: a task id or None
    tasks,                \* the asyncio Tasks running API._authenticate
    lock,                 \* API._lock: the caller holding it, or None
    lockQ,                \* API._lock: its FIFO of waiters
    readyQ,               \* the event loop's ready queue
    pc,                   \* each caller's suspension point
    call,                 \* each caller's current/last operation and what it saw
    cur,                  \* the caller whose step has just returned to user code
    now,                  \* datetime.now(UTC)
    minted,               \* tokens the service has issued so far
    authNet,              \* authentication network exchanges started so far
    opsLeft               \* operations the callers may still start

\* One Transport send (SnooRequest._send_request).
VARIABLES
    attempt,              \* the local attempt
    resp_exc,             \* the local resp_exc: the exception captured last, or None
    tpc,                  \* where the send is
    tlog,                 \* what the send has done so far: attempts and sleeps
    tresult               \* what the send returned or raised

\* The device registry (API.update_device_info and what it calls).
VARIABLES
    last_state_update,    \* API.last_state_update: a clock reading or None
    devices,              \* API.devices: serial number -> entity, None if absent
    entities,             \* SnooDevice objects constructed so far
    account,              \* API.account
    baby,                 \* API.baby
    updLock,              \* API._update: the caller holding it, or None
    updQ,                 \* API._update: its FIFO of waiters
    upc,                  \* each caller's position in update_device_info
    ucall                 \* each caller's current/last update_device_info call

\* One Journal Client operation (JournalManager, journal.py).
VARIABLES
    jpc,                  \* where the operation is: idle, query, send or done
    jcall,                \* its arguments and the user id it works with
    jlog,                 \* the api.request calls it has made, in order
    jresult               \* what it returned or raised

\* One measurement taken there and back through the create operations' unit
\* conversion.
VARIABLES
    conv                  \* the value given, its metric value, and that one's imperial value

gvars == <<credentials, invalid_credentials, security_token, authentication_task,
           tasks, lock, lockQ, readyQ, pc, call, cur, now, minted, authNet, opsLeft>>

tvars == <<attempt, resp_exc, tpc, tlog, tresult>>

dvars == <<last_state_update, devices, entities, account, baby, updLock, updQ,
           upc, ucall>>

\* The gateway's variables other than the clock and the operation budget.
gRest == <<credentials, invalid_credentials, security_token, authentication_task,
           tasks, lock, lockQ, readyQ, pc, call, cur, minted, authNet>>

jvars == <<jpc, jcall, jlog, jresult>>

cvars == <<conv>>

vars == <<gvars, tvars, dvars, jvars, cvars>>

----------------------------------------------------------------------------
\* Pure helpers, one per decision the code takes.

\* Variants of the gate's test: one that reads the comparison backwards, one
\* that takes a token expiring this instant as still valid.
NeedsRefresh_Reversed(st, t) == st[3] = None \/ st[3] >= t

NeedsRefresh_Strict(st, t) == st[3] = None \/ st[3] < t

\* api.py:156-159: the gate's "token has to be refreshed" test.
NeedsRefresh(st, t) == st[3] = None \/ st[3] <= t

\* api.py:312: _authenticate takes the refresh path.
UseRefreshPath(st, t) == st[3] # None /\ st[3] < t

\* Variants of the clearing after a 401: one that clears nothing, one that
\* forgets to clear the expiry.
Cleared_Nothing(st) == st

Cleared_KeepExpiry(st) == <<None, None, st[3], st[4]>>

\* Variant that also forgets when the Credential was last refreshed.
Cleared_ForgetsRefreshed(st) == <<None, None, None, None>>

\* api.py:200 and 233: the Credential after a 401.
Cleared(st) == <<None, None, None, st[4]>>

\* api.py:288: ExpiresIn, or the default when the field is absent.
ExpiresOrDefault(life) == IF life = None THEN DEFAULT_TOKEN_REFRESH ELSE life

\* api.py:327-332: the Credential stored by a successful fresh login.
NewCredential(token, refresh, expires, t) ==
    <<token, refresh, t + (expires \div 2), t>>

\* api.py:370-374: the floor _refresh_token puts on the declared lifetime.
RefreshExpires(life) ==
    LET e == ExpiresOrDefault(life)
    IN IF e < DEFAULT_TOKEN_REFRESH * 2 THEN DEFAULT_TOKEN_REFRESH * 2 ELSE e

\* Variant of the credentials test that looks at the username only.
CredentialsMissing_UserOnly(cr) == cr.username = None

\* api.py:380: no username or no password.
CredentialsMissing(cr) == cr.username = None \/ cr.password = None

\* The error kinds (errors.py): siblings under one base class, so an
\* "except AuthenticationError" clause does not catch InvalidCredentialsError.
IsAuthenticationError(e) == e = "AuthenticationError"

\* api.py:402: the errors authenticate(wait=True) translates.
TranslatedByAuthenticate(e) == e \in {"RequestError", "AuthenticationError"}

\* Variant of the harvest that lets an Authentication error of the task through.
SwallowedByHarvest_RequestOnly(e) == e \in {"CancelledError", "RequestError"}

\* api.py:149-153: the errors the gate swallows when it harvests a finished
\* task.
SwallowedByHarvest(e) ==
    e \in {"CancelledError", "RequestError", "AuthenticationError"}

\* request.py:37-88 (and 115-123): the final outcomes of one Transport send.
TransportOutcomes == {"ok", "e401", "ehttp", "enet", "ejson"}

Out(k) == [kind |-> k, life |-> None, refr |-> FALSE]

\* api.py:271-298: what a fresh login can end in. The task can also be
\* cancelled from outside (authenticate() hands it to its caller, api.py:409).
LoginOutcomes ==
    [kind : {"ok"}, life : ExpiresInValues, refr : BOOLEAN]
    \cup {Out("RequestError"), Out("AuthenticationError"), Out("OtherError"),
          Out("CancelledError")}

\* api.py:344-376: what a refresh exchange can end in.
RefreshOutcomes ==
    [kind : {"ok"}, life : ExpiresInValues, refr : {TRUE}]
    \cup {Out("RequestError"), Out("OtherError"), Out("CancelledError")}

\* api.py:56: the Credential of a new client.
NoCredential == <<None, None, None, None>>

\* A task record: its position, its result, the callers awaiting it, and
\* (bookkeeping of the model) the Credential as it was when the task began
\* to execute, kept while the task runs, and the path the task took.
FreeTask ==
    [st |-> "free", res |-> "none", waiters |-> <<>>, was |-> NoCredential,
     path |-> "none"]
NoCall == [op |-> "none", result |-> "none", first |-> "none", second |-> "none",
           branch |-> "none", hdr |-> None, retryTok |-> None, harvested |-> "none"]

InQ(k, id) == \E i \in 1..Len(readyQ) : readyQ[i].k = k /\ readyQ[i].id = id

InFlight(ts) == {i \in TaskIds : ts[i].st \in {"created", "login", "refresh"}}

\* The serial numbers the service may list.
Serials == {1, 2}

NoUpdate == [made |-> None, call_dt |-> None, path |-> "none", log |-> <<>>,
             todo |-> <<>>, result |-> "none", last |-> "none"]

\* api.py:54 and 62-65: the registry of a new client.
RegistryNew ==
    /\ last_state_update = None
    /\ devices = [sn \in Serials |-> None]
    /\ entities = 0
    /\ account = None
    /\ baby = None
    /\ updLock = None
    /\ updQ = <<>>
    /\ upc = [c \in Callers |-> "idle"]
    /\ ucall = [c \in Callers |-> NoUpdate]

\* request.py:38: no exception captured (resp_exc = None); also "no result yet".
NoExc == [kind |-> "none", at |-> 0]

\* No Transport send has been started.
TransportIdle ==
    /\ attempt = 0
    /\ resp_exc = NoExc
    /\ tpc = "idle"
    /\ tlog = <<>>
    /\ tresult = NoExc

\* The arguments of a Journal Client operation; an operation reads only its
\* own parameters, the others keep these values.
NoArgs == [op |-> "none", baby_id |-> None, start_time |-> [sec |-> 0, usec |-> 0],
           end_time |-> [sec |-> 0, usec |-> 0], user_id |-> None, note |-> None,
           diaper_types |-> <<>>, feeding_type |-> "none", milk_type |-> "none",
           imperial |-> None, metric |-> None, tie_up |-> FALSE,
           last_used_breast |-> "none",
           left_duration |-> None, right_duration |-> None,
           entry_id |-> None, updates |-> <<>>]

\* No answer to the tracking query yet.
NoResponse == [kind |-> "none", entries |-> <<>>]

\* No outcome yet.
NoOutcome == [kind |-> "none", cause |-> "none"]

\* No measurement is being converted.
NoConversion == [stage |-> "none", factor |-> 0, imperial |-> None, metric |-> None,
                 back |-> None]

\* api.py:66: the journal manager of a new client has run nothing.
JournalIdle ==
    /\ jpc = "idle"
    /\ jcall = [args |-> NoArgs, user_id |-> None, diaper_entries |-> NoResponse]
    /\ jlog = <<>>
    /\ jresult = NoOutcome
    /\ conv = NoConversion

----------------------------------------------------------------------------
\* api.py:45-66: the client after construction.
Init ==
    /\ credentials \in [username : {None, 1}, password : {None, 1}]
    /\ invalid_credentials = FALSE
    /\ security_token = <<None, None, None, None>>
    /\ authentication_task = None
    /\ tasks = [i \in TaskIds |-> FreeTask]
    /\ lock = None
    /\ lockQ = <<>>
    /\ readyQ = <<>>
    /\ pc = [c \in Callers |-> "idle"]
    /\ call = [c \in Callers |-> NoCall]
    /\ cur = None
    /\ now = 0
    /\ minted = 0
    /\ authNet = 0
    /\ opsLeft = MaxOps
    /\ TransportIdle
    /\ RegistryNew
    /\ JournalIdle

----------------------------------------------------------------------------
\* The state a step of a coroutine works on, as one record; ret is what the
\* call made last in the step came back with.
Machine ==
    [st |-> security_token, at |-> authentication_task, tasks |-> tasks,
     lock |-> lock, lockQ |-> lockQ, rq |-> readyQ, pc |-> pc, call |-> call,
     cur |-> None, ret |-> "returned"]

\* An entry of the ready queue: the coroutine to resume and, for a caller
\* that awaited a task, the task's result.
Entry(k, id, res) == [k |-> k, id |-> id, res |-> res]

NewTaskId(ts) == CHOOSE i \in TaskIds :
    ts[i].st = "free" /\ \A j \in TaskIds : ts[j].st = "free" => i <= j

\* api.py:390-397: authenticate() starts a task only when the slot is empty.
\* asyncio.create_task queues the new task's first step.
StartTaskIfNone(M) ==
    IF M.at # None THEN M
    ELSE LET i == NewTaskId(M.tasks)
         IN [M EXCEPT !.at = i,
                      !.tasks[i] = [st |-> "created", res |-> "none", waiters |-> <<>>,
                                    was |-> NoCredential, path |-> "none"],
                      !.rq = Append(@, Entry("task", i, "none"))]

\* api.py:400-407: authenticate(wait=True) once the awaited task has ended
\* with res.
AfterAwait(M, res) ==
    IF res = "ok" THEN [M EXCEPT !.at = None, !.ret = "returned"]
    ELSE IF TranslatedByAuthenticate(res)
         THEN [M EXCEPT !.at = None, !.ret = "AuthenticationError"]
         ELSE [M EXCEPT !.ret = res]

\* api.py:380-388: the guards of authenticate().
RejectsCredentials(cr, invalid) == CredentialsMissing(cr) \/ invalid

\* api.py:378-409: authenticate(wait) called by c. Awaiting a task that is
\* already done does not suspend; otherwise c joins the task's waiters and
\* suspends at pcWait.
Authenticate(M, c, wait, pcWait) ==
    IF RejectsCredentials(credentials, invalid_credentials)
    THEN [M EXCEPT !.ret = "InvalidCredentialsError"]
    ELSE LET M1 == StartTaskIfNone(M)
         IN IF ~wait THEN [M1 EXCEPT !.ret = "returned"]
            ELSE IF M1.tasks[M1.at].st = "done"
                 THEN AfterAwait(M1, M1.tasks[M1.at].res)
                 ELSE [M1 EXCEPT !.tasks[M1.at].waiters = Append(@, c),
                                 !.pc[c] = pcWait,
                                 !.ret = "suspended"]

\* api.py:136 (leaving "async with self._lock") and the end of request():
\* the gate goes to the first waiter, whose wake-up is queued.
ExitRequest_KeepsGate(M, c, result) ==
    [M EXCEPT !.pc[c] = "idle", !.call[c].result = result, !.cur = c]

ExitRequest(M, c, result) ==
    LET hand == M.lockQ # <<>>
    IN [M EXCEPT !.lock = IF hand THEN Head(M.lockQ) ELSE None,
                 !.lockQ = IF hand THEN Tail(@) ELSE @,
                 !.rq = IF hand THEN Append(@, Entry("caller", Head(M.lockQ), "none"))
                        ELSE @,
                 !.pc[c] = "idle",
                 !.call[c].result = result,
                 !.cur = c]

\* A direct authenticate() call returns to user code.
ExitDirect(M, c, result) ==
    [M EXCEPT !.pc[c] = "idle", !.call[c].result = result, !.cur = c]

\* api.py:177-196: the Authorization header is taken from the Credential and
\* the first dispatch is sent.
Dispatch1(M, c) == [M EXCEPT !.call[c].hdr = M.st[1], !.pc[c] = "net1"]

\* api.py:214-224: the retry is sent with the headers built at line 180.
RetryHeader(hdr, st) == hdr

Retry(M, c) ==
    [M EXCEPT !.call[c].hdr = RetryHeader(M.call[c].hdr, M.st),
              !.call[c].retryTok = M.st[1],
              !.pc[c] = "net2"]

\* api.py:139-153: the gate harvests a finished background task.
Harvest(M, c) ==
    IF M.at = None THEN [M EXCEPT !.ret = "returned"]
    ELSE IF RejectsCredentials(credentials, invalid_credentials)
    THEN [M EXCEPT !.ret = "InvalidCredentialsError"]
    ELSE IF M.tasks[M.at].st = "done"
    THEN LET r == M.tasks[M.at].res
         IN [M EXCEPT !.at = None,
                      !.call[c].harvested = r,
                      !.ret = IF r = "ok" \/ SwallowedByHarvest(r)
                              THEN "returned" ELSE r]
    ELSE [M EXCEPT !.ret = "returned"]

\* api.py:166-171: what the gate does with the outcome of its blocking
\* authenticate.
AfterGateAuth(M, c) ==
    IF M.ret = "suspended" THEN M
    ELSE IF M.ret = "returned" THEN Dispatch1(M, c)
    ELSE IF IsAuthenticationError(M.ret) THEN ExitRequest(M, c, "AuthenticationError")
    ELSE ExitRequest(M, c, M.ret)

\* api.py:155-180: the expiry check inside the gate.
ExpiryCheck(M, c) ==
    IF NeedsRefresh(M.st, now)
    THEN IF M.st[1] = None
         THEN AfterGateAuth(
                  Authenticate([M EXCEPT !.call[c].branch = "blocking"],
                               c, TRUE, "auth_gate"), c)
         ELSE LET A == Authenticate([M EXCEPT !.call[c].branch = "nonblocking"],
                                    c, FALSE, "auth_gate")
              IN IF A.ret = "returned" THEN Dispatch1(A, c)
                 ELSE ExitRequest(A, c, A.ret)
    ELSE Dispatch1([M EXCEPT !.call[c].branch = "valid"], c)

\* api.py:136-180: request() once it holds the gate.
Gate(M, c) ==
    LET H == Harvest(M, c)
    IN IF H.ret # "returned" THEN ExitRequest(H, c, H.ret)
       ELSE ExpiryCheck(H, c)

\* api.py:202-224: what request() does with the outcome of the blocking
\* re-authentication after a 401.
AfterReauth_RetriesAnyway(M, c) ==
    IF M.ret = "suspended" THEN M ELSE Retry(M, c)

AfterReauth(M, c) ==
    IF M.ret = "suspended" THEN M
    ELSE IF M.ret = "returned" THEN Retry(M, c)
    ELSE IF IsAuthenticationError(M.ret) THEN ExitRequest(M, c, "AuthenticationError")
    ELSE ExitRequest(M, c, M.ret)

\* Variant of the status test that takes every HTTP error for a 401.
Is401_AnyHttpError(out) == out \in {"e401", "ehttp"}

\* api.py:199 and 231: err.status == 401.
Is401(out) == out = "e401"

\* api.py:184-212 and 226-242: the first dispatch has ended with out.
OnNet1(M, c, out) ==
    LET M1 == [M EXCEPT !.call[c].first = out]
    IN IF out = "ok" THEN ExitRequest(M1, c, "ok")
       ELSE IF Is401(out)
       THEN AfterReauth(
                Authenticate([M1 EXCEPT !.st = Cleared(M.st)], c, TRUE, "auth_401"), c)
       ELSE ExitRequest(M1, c, "RequestError")

\* api.py:215-242: the retry has ended with out.
OnNet2(M, c, out) ==
    LET M1 == [M EXCEPT !.call[c].second = out]
    IN IF out = "ok" THEN ExitRequest(M1, c, "ok")
       ELSE IF Is401(out)
       THEN LET A == Authenticate([M1 EXCEPT !.st = Cleared(M.st)], c, FALSE, "auth_401")
            IN IF A.ret = "returned" THEN ExitRequest(A, c, "AuthenticationError")
               ELSE ExitRequest(A, c, A.ret)
       ELSE ExitRequest(M1, c, "RequestError")

\* Variant of request() that does not wait for the gate.
StartRequest_NoGate(M, c) == Gate([M EXCEPT !.lock = c], c)

\* api.py:136: request() takes the gate at once when it is free, else queues.
StartRequest(M, c) ==
    IF M.lock = None THEN Gate([M EXCEPT !.lock = c], c)
    ELSE [M EXCEPT !.lockQ = Append(@, c), !.pc[c] = "lock_wait"]

\* api.py:378-409: authenticate(wait) called by user code (login() does so).
StartAuth(M, c, wait) ==
    LET A == Authenticate(M, c, wait, "auth_direct")
    IN IF A.ret = "suspended" THEN A
       ELSE ExitDirect(A, c, IF A.ret = "returned" THEN "ok" ELSE A.ret)

Ops == {"request", "authT", "authF"}

StartOp(M, c, op) ==
    LET M1 == [M EXCEPT !.call[c] = [NoCall EXCEPT !.op = op]]
    IN IF op = "request" THEN StartRequest(M1, c)
       ELSE StartAuth(M1, c, op = "authT")

\* A finished task no one can reach any more (not in the slot; its waiters
\* carry its result in their wake-ups) is dropped.
Collect(ts, at) ==
    [i \in TaskIds |-> IF ts[i].st = "done" /\ at # i THEN FreeTask ELSE ts[i]]

\* What a caller saw in its last operation is kept only until another step
\* runs (bookkeeping of the model, not state of the program).
Forget(cl, p, who) ==
    [c \in Callers |-> IF p[c] \in {"idle", "start"} /\ who # c THEN NoCall ELSE cl[c]]

Apply(M) ==
    /\ security_token' = M.st
    /\ authentication_task' = M.at
    /\ tasks' = Collect(M.tasks, M.at)
    /\ lock' = M.lock
    /\ lockQ' = M.lockQ
    /\ readyQ' = M.rq
    /\ pc' = M.pc
    /\ call' = Forget(M.call, M.pc, M.cur)
    /\ cur' = M.cur
    /\ UNCHANGED <<tvars, dvars, jvars, cvars>>

\* The step at the head of the ready queue is taken off it.
Popped == [Machine EXCEPT !.rq = Tail(readyQ)]

HeadIs(k, id) == readyQ # <<>> /\ Head(readyQ).k = k /\ Head(readyQ).id = id

----------------------------------------------------------------------------
\* The authentication task (API._authenticate).

\* api.py:360-376: the triple _refresh_token returns for a refresh response.
RefreshTriple(out, id) == <<id, id, RefreshExpires(out.life)>>

\* api.py:285-298: the triple _api_authenticate returns for a login response.
LoginTriple(out, id) ==
    <<id, IF out.refr THEN id ELSE None, ExpiresOrDefault(out.life)>>

\* Variant of _authenticate that stores whatever its exchange ended in.
TaskStores_Always(res) == TRUE

\* api.py:314-332: the store is reached only when the exchange returned.
TaskStores(res) == res = "ok"

\* api.py:312-332: the Credential after _authenticate has received its
\* triple; the refresh path returns at line 315, before the store.
StoreCredential(path, tr, st, t) ==
    IF path = "refresh" THEN st
    ELSE NewCredential(tr[1], tr[2], tr[3], t)

\* api.py:308-318: the task's first step picks its path from the Credential
\* and the clock as they are when it runs, and starts the network exchange.
RunTaskStart(i) ==
    /\ HeadIs("task", i)
    /\ tasks[i].st = "created"
    /\ Apply([Popped EXCEPT
           !.tasks[i].st = IF UseRefreshPath(security_token, now)
                           THEN "refresh" ELSE "login",
           !.tasks[i].was = security_token,
           !.tasks[i].path = IF UseRefreshPath(security_token, now)
                             THEN "refresh" ELSE "login"])
    /\ authNet' = authNet + 1
    /\ UNCHANGED <<credentials, invalid_credentials, now, minted, opsLeft>>

\* The task's network exchange has ended, with out; the task stores (or not) and
\* completes, and the wake-ups of its waiters are queued in the order they
\* began to wait.
WakeAll(rq, ws, res) ==
    rq \o [n \in 1..Len(ws) |-> Entry("caller", ws[n], res)]

RunTaskFinishOf(i, kinds) ==
    /\ HeadIs("task", i)
    /\ tasks[i].st \in {"login", "refresh"}
    /\ \E out \in {o \in IF tasks[i].st = "login" THEN LoginOutcomes
                            ELSE RefreshOutcomes : o.kind \in kinds} :
       LET ok == TaskStores(out.kind)
           id == minted + 1
           tr == IF tasks[i].st = "refresh" THEN RefreshTriple(out, id)
                 ELSE LoginTriple(out, id)
       IN /\ Apply([Popped EXCEPT
                 !.st = IF ok THEN StoreCredential(tasks[i].st, tr, security_token, now)
                        ELSE @,
                 !.tasks[i] = [st |-> "done", res |-> out.kind, waiters |-> <<>>,
                               was |-> NoCredential, path |-> tasks[i].st],
                 !.rq = WakeAll(@, tasks[i].waiters, out.kind)])
          /\ minted' = IF ok THEN id ELSE minted
    /\ UNCHANGED <<credentials, invalid_credentials, now, authNet, opsLeft>>

TaskResults ==
    {"ok", "RequestError", "AuthenticationError", "OtherError", "CancelledError"}

RunTaskFinish(i) == RunTaskFinishOf(i, TaskResults)

----------------------------------------------------------------------------
\* The environment: responses arrive, time passes, user code is scheduled.

\* The coroutine that ran last has suspended or ended by the time the loop
\* handles anything else: it can no longer continue its step.
Yield ==
    /\ cur' = None
    /\ call' = Forget(call, pc, None)
    /\ UNCHANGED <<tvars, dvars, jvars, cvars>>

\* The Transport send of caller c ends; its wake-up is queued.
NetArriveCaller(c) ==
    /\ pc[c] \in {"net1", "net2"}
    /\ ~InQ("caller", c)
    /\ readyQ' = Append(readyQ, Entry("caller", c, "none"))
    /\ Yield
    /\ UNCHANGED <<credentials, invalid_credentials, security_token,
                   authentication_task, tasks, lock, lockQ, pc, now,
                   minted, authNet, opsLeft>>

\* The exchange of task i ends; its wake-up is queued.
NetArriveTask(i) ==
    /\ tasks[i].st \in {"login", "refresh"}
    /\ ~InQ("task", i)
    /\ readyQ' = Append(readyQ, Entry("task", i, "none"))
    /\ Yield
    /\ UNCHANGED <<credentials, invalid_credentials, security_token,
                   authentication_task, tasks, lock, lockQ, pc, now,
                   minted, authNet, opsLeft>>

Tick ==
    /\ now < MaxTime
    /\ now' = now + 1
    /\ Yield
    /\ UNCHANGED <<credentials, invalid_credentials, security_token,
                   authentication_task, tasks, lock, lockQ, readyQ, pc,
                   minted, authNet, opsLeft>>

\* api.py:72-75
SetUsername ==
    /\ credentials.username = None
    /\ credentials' = [credentials EXCEPT !.username = 1]
    /\ invalid_credentials' = FALSE
    /\ UNCHANGED <<security_token, authentication_task, tasks, lock, lockQ,
                   readyQ, pc, call, cur, now, minted, authNet, opsLeft>>
    /\ UNCHANGED <<tvars, dvars, jvars, cvars>>

\* api.py:81-84
SetPassword ==
    /\ credentials.password = None
    /\ credentials' = [credentials EXCEPT !.password = 1]
    /\ invalid_credentials' = FALSE
    /\ UNCHANGED <<security_token, authentication_task, tasks, lock, lockQ,
                   readyQ, pc, call, cur, now, minted, authNet, opsLeft>>
    /\ UNCHANGED <<tvars, dvars, jvars, cvars>>

\* A user coroutine is scheduled to call the client.
Spawn(c) ==
    /\ pc[c] = "idle"
    /\ opsLeft > 0
    /\ pc' = [pc EXCEPT ![c] = "start"]
    /\ readyQ' = Append(readyQ, Entry("caller", c, "none"))
    /\ Yield
    /\ opsLeft' = opsLeft - 1
    /\ UNCHANGED <<credentials, invalid_credentials, security_token,
                   authentication_task, tasks, lock, lockQ, now, minted,
                   authNet>>

----------------------------------------------------------------------------
\* The steps of the callers.

Frame == UNCHANGED <<credentials, invalid_credentials, now, minted, authNet>>

\* The scheduled coroutine starts an operation.
RunStartOf(c, ops) ==
    /\ HeadIs("caller", c)
    /\ pc[c] = "start"
    /\ \E op \in ops : Apply(StartOp([Popped EXCEPT !.pc[c] = "idle"], c, op))
    /\ UNCHANGED opsLeft
    /\ Frame

RunStart(c) == RunStartOf(c, Ops)

\* User code that has just got an operation's result calls the client again
\* without suspending in between.
ContinueOf(c, ops) ==
    /\ cur = c
    /\ pc[c] = "idle"
    /\ opsLeft > 0
    /\ \E op \in ops : Apply(StartOp(Machine, c, op))
    /\ opsLeft' = opsLeft - 1
    /\ Frame

Continue(c) == ContinueOf(c, Ops)

\* api.py:136: a request that waited for the gate enters it.
RunLockWake(c) ==
    /\ HeadIs("caller", c)
    /\ pc[c] = "lock_wait"
    /\ Apply(Gate(Popped, c))
    /\ UNCHANGED opsLeft
    /\ Frame

\* api.py:167 resumed: the gate's blocking authenticate has ended.
RunAuthGate(c) ==
    /\ HeadIs("caller", c)
    /\ pc[c] = "auth_gate"
    /\ Apply(AfterGateAuth(AfterAwait(Popped, Head(readyQ).res), c))
    /\ UNCHANGED opsLeft
    /\ Frame

\* api.py:203 resumed: the re-authentication after a 401 has ended.
RunAuth401(c) ==
    /\ HeadIs("caller", c)
    /\ pc[c] = "auth_401"
    /\ Apply(AfterReauth(AfterAwait(Popped, Head(readyQ).res), c))
    /\ UNCHANGED opsLeft
    /\ Frame

\* api.py:401 resumed in a direct authenticate(wait=True).
RunAuthDirect(c) ==
    /\ HeadIs("caller", c)
    /\ pc[c] = "auth_direct"
    /\ LET A == AfterAwait(Popped, Head(readyQ).res)
       IN Apply(ExitDirect(A, c, IF A.ret = "returned" THEN "ok" ELSE A.ret))
    /\ UNCHANGED opsLeft
    /\ Frame

\* api.py:187 resumed: the first dispatch has ended.
RunNet1Of(c, outs) ==
    /\ HeadIs("caller", c)
    /\ pc[c] = "net1"
    /\ \E o \in outs : Apply(OnNet1(Popped, c, o))
    /\ UNCHANGED opsLeft
    /\ Frame

RunNet1(c) == RunNet1Of(c, TransportOutcomes)

\* api.py:215 resumed: the retry has ended.
RunNet2Of(c, outs) ==
    /\ HeadIs("caller", c)
    /\ pc[c] = "net2"
    /\ \E o \in outs : Apply(OnNet2(Popped, c, o))
    /\ UNCHANGED opsLeft
    /\ Frame

RunNet2(c) == RunNet2Of(c, TransportOutcomes)

Next ==
    \/ \E c \in Callers : Spawn(c)
    \/ \E c \in Callers : RunStart(c)
    \/ \E c \in Callers : Continue(c)
    \/ \E c \in Callers : RunLockWake(c)
    \/ \E c \in Callers : RunAuthGate(c)
    \/ \E c \in Callers : RunAuth401(c)
    \/ \E c \in Callers : RunAuthDirect(c)
    \/ \E c \in Callers : RunNet1(c)
    \/ \E c \in Callers : RunNet2(c)
    \/ \E c \in Callers : NetArriveCaller(c)
    \/ \E i \in TaskIds : RunTaskStart(i)
    \/ \E i \in TaskIds : RunTaskFinish(i)
    \/ \E i \in TaskIds : NetArriveTask(i)
    \/ Tick
    \/ SetUsername
    \/ SetPassword

Spec == Init /\ [][Next]_vars

\* What happens without anyone's choice: the event loop runs the coroutine
\* at the head of its ready queue, and a network call that is under way
\* returns (with a response or an exception).
Scheduled ==
    \/ \E c \in Callers : RunStart(c)
    \/ \E c \in Callers : RunLockWake(c)
    \/ \E c \in Callers : RunAuthGate(c)
    \/ \E c \in Callers : RunAuth401(c)
    \/ \E c \in Callers : RunAuthDirect(c)
    \/ \E c \in Callers : RunNet1(c)
    \/ \E c \in Callers : RunNet2(c)
    \/ \E c \in Callers : NetArriveCaller(c)
    \/ \E i \in TaskIds : RunTaskStart(i)
    \/ \E i \in TaskIds : RunTaskFinish(i)
    \/ \E i \in TaskIds : NetArriveTask(i)

\* Two request() calls started concurrently (both scheduled before either
\* runs) on a new client with valid credentials.
InitTwoRequests ==
    /\ credentials = [username |-> 1, password |-> 1]
    /\ invalid_credentials = FALSE
    /\ security_token = <<None, None, None, None>>
    /\ authentication_task = None
    /\ tasks = [i \in TaskIds |-> FreeTask]
    /\ lock = None
    /\ lockQ = <<>>
    /\ readyQ \in {<<Entry("caller", a, "none"), Entry("caller", b, "none")>> :
                      <<a, b>> \in {<<x, y>> \in Callers \X Callers : x # y}}
    /\ pc = [c \in Callers |-> "start"]
    /\ call = [c \in Callers |-> NoCall]
    /\ cur = None
    /\ now = 0
    /\ minted = 0
    /\ authNet = 0
    /\ opsLeft = 0
    /\ TransportIdle
    /\ RegistryNew
    /\ JournalIdle

\* Every login succeeds and no dispatch is answered with a 401.
NextTwoRequests ==
    \/ \E c \in Callers : RunStartOf(c, {"request"})
    \/ \E c \in Callers : RunLockWake(c)
    \/ \E c \in Callers : RunAuthGate(c)
    \/ \E c \in Callers : RunNet1Of(c, TransportOutcomes \ {"e401"})
    \/ \E c \in Callers : NetArriveCaller(c)
    \/ \E i \in TaskIds : RunTaskStart(i)
    \/ \E i \in TaskIds : RunTaskFinishOf(i, {"ok"})
    \/ \E i \in TaskIds : NetArriveTask(i)
    \/ Tick

SpecTwoRequests == InitTwoRequests /\ [][NextTwoRequests]_vars

\* Two request() calls started concurrently on a new client, with every
\* outcome of the dispatches and of the authentication exchanges.
NextContention ==
    \/ \E c \in Callers : RunStartOf(c, {"request"})
    \/ \E c \in Callers : RunLockWake(c)
    \/ \E c \in Callers : RunAuthGate(c)
    \/ \E c \in Callers : RunAuth401(c)
    \/ \E c \in Callers : RunNet1(c)
    \/ \E c \in Callers : RunNet2(c)
    \/ \E c \in Callers : NetArriveCaller(c)
    \/ \E i \in TaskIds : RunTaskStart(i)
    \/ \E i \in TaskIds : RunTaskFinish(i)
    \/ \E i \in TaskIds : NetArriveTask(i)
    \/ Tick

SpecContention == InitTwoRequests /\ [][NextContention]_vars

\* The event loop runs what is ready and every network call returns.
FairSpecContention == SpecContention /\ WF_vars(Scheduled)

----------------------------------------------------------------------------
\* The Transport: one send (SnooRequest._send_request, request.py:26-88).

\* What one HTTP attempt (websession.request with raise_for_status) can end
\* in: a response, a 401, another HTTP error status, a network-level
\* ClientError, or an exception that is no ClientError.
AttemptOutcomes == {"ok", "e401", "ehttp", "enet", "eother"}

\* Variant of the loop test that allows one attempt more.
MayAttempt_OneMore(a) == a <= DEFAULT_REQUEST_RETRIES

\* request.py:41: the loop test.
MayAttempt(a) == a < DEFAULT_REQUEST_RETRIES

\* Variant of the backoff without the cap.
WaitFor_Uncapped(a) == 2^a

\* request.py:43: wait_for = min(2 ** attempt, 5).
WaitFor(a) == IF 2^a < BackoffCap THEN 2^a ELSE BackoffCap

\* Variant of the except clauses that treats a 401 like any other HTTP error.
AfterAttempt_Retry401(o) ==
    IF o = "ok" THEN "return"
    ELSE IF o \in {"e401", "ehttp", "enet"} THEN "retry"
    ELSE "raise"

\* request.py:49-83: what the loop does with the outcome of an attempt.
AfterAttempt(o) ==
    IF o = "ok" THEN "return"
    ELSE IF o = "e401" THEN "raise"
    ELSE IF o \in {"ehttp", "enet"} THEN "retry"
    ELSE "raise"

\* Variant of the capture that keeps the first exception.
Captured_First(prev, e) == IF prev = NoExc THEN e ELSE prev

\* request.py:76 and 83: resp_exc = err.
Captured(prev, e) == e

\* request.py:85-88: what the send raises once the loop has ended.
Exhausted(exc) == IF exc # NoExc THEN exc ELSE [kind |-> "RequestError", at |-> 0]

\* A gateway in which nothing is going on.
GatewayQuiet ==
    /\ credentials = [username |-> 1, password |-> 1]
    /\ invalid_credentials = FALSE
    /\ security_token = <<None, None, None, None>>
    /\ authentication_task = None
    /\ tasks = [i \in TaskIds |-> FreeTask]
    /\ lock = None
    /\ lockQ = <<>>
    /\ readyQ = <<>>
    /\ pc = [c \in Callers |-> "idle"]
    /\ call = [c \in Callers |-> NoCall]
    /\ cur = None
    /\ minted = 0
    /\ authNet = 0

\* The gateway is not involved in a bare Transport send.
GatewayAtRest == GatewayQuiet /\ now = 0 /\ opsLeft = 0

InitTransport == GatewayAtRest /\ TransportIdle /\ RegistryNew /\ JournalIdle

\* request.py:37-40: the send is called.
TSend ==
    /\ tpc = "idle"
    /\ tpc' = "loop"
    /\ attempt' = 0
    /\ resp_exc' = NoExc
    /\ UNCHANGED <<tlog, tresult, gvars, dvars, jvars, cvars>>

\* request.py:41-46 and 85-88: the loop test; with attempts left the send
\* sleeps (not before the first attempt), without it raises.
TLoop ==
    /\ tpc = "loop"
    /\ IF MayAttempt(attempt)
       THEN IF attempt # 0
            THEN /\ tlog' = Append(tlog, [ev |-> "sleep", n |-> WaitFor(attempt)])
                 /\ tpc' = "sleeping"
                 /\ UNCHANGED <<attempt, tresult>>
            ELSE /\ attempt' = attempt + 1
                 /\ tlog' = Append(tlog, [ev |-> "attempt", n |-> attempt + 1])
                 /\ tpc' = "sending"
                 /\ UNCHANGED tresult
       ELSE /\ tpc' = "raised"
            /\ tresult' = Exhausted(resp_exc)
            /\ UNCHANGED <<attempt, tlog>>
    /\ UNCHANGED <<resp_exc, gvars, dvars, jvars, cvars>>

\* request.py:46-51: the sleep is over; the next attempt is sent.
TWake ==
    /\ tpc = "sleeping"
    /\ attempt' = attempt + 1
    /\ tlog' = Append(tlog, [ev |-> "attempt", n |-> attempt + 1])
    /\ tpc' = "sending"
    /\ UNCHANGED <<resp_exc, tresult, gvars, dvars, jvars, cvars>>

\* request.py:51-83: the attempt ends with o.
TResponse ==
    /\ tpc = "sending"
    /\ \E o \in AttemptOutcomes :
         LET e == [kind |-> o, at |-> attempt]
             what == AfterAttempt(o)
         IN /\ tlog' = Append(tlog, [ev |-> o, n |-> attempt])
            /\ tpc' = IF what = "return" THEN "returned"
                      ELSE IF what = "raise" THEN "raised" ELSE "loop"
            /\ tresult' = IF what = "retry" THEN tresult ELSE e
            /\ resp_exc' = IF what = "retry" THEN Captured(resp_exc, e) ELSE resp_exc
    /\ UNCHANGED <<attempt, gvars, dvars, jvars, cvars>>

NextTransport ==
    \/ TSend
    \/ TLoop
    \/ TWake
    \/ TResponse

SpecTransport == InitTransport /\ [][NextTransport]_vars

\* Every sleep ends and every attempt is answered or fails (the event loop
\* runs a ready coroutine; aiohttp ends an attempt with a response or an
\* exception).
FairSpecTransport == SpecTransport /\ WF_vars(NextTransport)

----------------------------------------------------------------------------
\* The device registry: API.update_device_info (api.py:712-746) and the
\* fetches it makes. Each fetch is a request() of the gateway, taken here by
\* its outcome.

\* How far the clock moves between two steps, in seconds.
Advances == {119, 120}

\* The device lists the service may answer with; None is an entry without a
\* serial number.
DeviceLists == {<<>>, <<1>>, <<None, 2>>}

FetchStages == {"account_v10", "account_legacy", "babies_v10", "baby_legacy",
                "devices_v11", "devices_legacy", "config", "session_f", "session_t"}

\* The endpoint family a fetch goes to.
EndpointOf(stage) ==
    IF stage \in {"account_v10", "account_legacy"} THEN "account"
    ELSE IF stage \in {"babies_v10", "baby_legacy"} THEN "baby"
    ELSE IF stage \in {"devices_v11", "devices_legacy"} THEN "devices"
    ELSE IF stage = "config" THEN "config"
    ELSE "session"

Got(k) == [kind |-> k, list |-> <<>>]

\* What a fetch can come back with: data, a null body (or, for the account,
\* a body without userId; for the babies, an empty list), or an exception.
FetchOutcomes(stage) ==
    IF EndpointOf(stage) = "devices"
    THEN [kind : {"ok"}, list : DeviceLists] \cup {Got("fail")}
    ELSE IF EndpointOf(stage) \in {"account", "baby"}
    THEN {Got("ok"), Got("null"), Got("fail")}
    ELSE {Got("ok"), Got("fail")}

\* The registry a step of update_device_info works on, as one record.
Registry ==
    [lsu |-> last_state_update, devs |-> devices, ents |-> entities,
     acct |-> account, baby |-> baby, lk |-> updLock, lq |-> updQ,
     pc |-> upc, call |-> ucall]

\* A fetch is sent; the call waits for its answer.
Issue(D, c, stage) ==
    [D EXCEPT !.pc[c] = stage, !.call[c].log = Append(@, EndpointOf(stage))]

\* api.py:716: leaving "async with self._update", by return or by exception;
\* the gate goes to the first waiter.
Release(D, c, result) ==
    LET hand == D.lq # <<>>
    IN [D EXCEPT !.lk = IF hand THEN Head(D.lq) ELSE None,
                 !.lq = IF hand THEN Tail(@) ELSE @,
                 !.pc = [d \in Callers |->
                            IF d = c THEN "idle"
                            ELSE IF hand /\ d = Head(D.lq) THEN "wake"
                            ELSE D.pc[d]],
                 !.call[c].result = result,
                 !.call[c].todo = <<>>]

\* api.py:467-470 and 498-513: a listed serial number not yet in the registry
\* gets a new entity; one already there keeps its entity.
AddIfNew_Fresh(D, sn) == [D EXCEPT !.devs[sn] = D.ents + 1, !.ents = @ + 1]

AddIfNew(D, sn) ==
    IF D.devs[sn] = None THEN [D EXCEPT !.devs[sn] = D.ents + 1, !.ents = @ + 1]
    ELSE D

\* api.py:746: the timestamp a completed full refresh leaves.
Stamp_Keeps(lsu, t) == lsu

Stamp(lsu, t) == t

\* api.py:459-492 and 741-746: the loop over the listed devices, up to its
\* next fetch; after the last device the timestamp is set and the call
\* returns.
RECURSIVE FullLoop(_, _, _)
FullLoop(D, c, t) ==
    IF D.call[c].todo = <<>>
    THEN Release([D EXCEPT !.lsu = Stamp(D.lsu, t)], c, "ok")
    ELSE LET h == Head(D.call[c].todo)
         IN IF h = None
            THEN FullLoop([D EXCEPT !.call[c].todo = Tail(@)], c, t)
            ELSE Issue(AddIfNew(D, h), c, "config")

\* Variant of the throttled path that stamps the registry when it is done.
ThrottledLoop_Stamps(D, c) ==
    IF D.call[c].todo = <<>>
    THEN Release([D EXCEPT !.lsu = D.call[c].call_dt], c, "ok")
    ELSE Issue(D, c, "session_t")

\* api.py:730-732: the loop of the throttled path, one session fetch per
\* registry entry.
ThrottledLoop(D, c) ==
    IF D.call[c].todo = <<>> THEN Release(D, c, "ok")
    ELSE Issue(D, c, "session_t")

\* The registry's serial numbers in insertion order (dict order); entities
\* are numbered in the order they were added.
KnownInOrder(devs, n) == [i \in 1..n |-> CHOOSE sn \in Serials : devs[sn] = i]

\* api.py:737-740: after the account step. get_baby_for_account (line 517)
\* and _get_device_details (line 440) both subscript self.account, which
\* raises when the account is None.
AfterAccount(D, c) ==
    IF D.acct = None THEN Release(D, c, "error")
    ELSE IF D.baby = None THEN Issue(D, c, "babies_v10")
    ELSE Issue(D, c, "devices_v11")

\* Variant of the throttle test that still throttles at the instant the
\* interval has elapsed.
Throttled_Inclusive(t, lsu) == t <= lsu + DEFAULT_DEVICE_UPDATE_INTERVAL

\* api.py:720-725: call_dt < last_state_update + interval.
Throttled(t, lsu) == t < lsu + DEFAULT_DEVICE_UPDATE_INTERVAL

\* Variant of the first call's baseline that takes the time of the call.
Baseline_Now(lsu, t) == IF lsu = None THEN t ELSE lsu

\* api.py:718-719: without a last_state_update the call takes its own time
\* less the interval.
Baseline(lsu, t) ==
    IF lsu = None THEN t - DEFAULT_DEVICE_UPDATE_INTERVAL ELSE lsu

\* api.py:717-740: update_device_info once it holds the update gate, at clock
\* reading t.
Enter(D, c, t) ==
    LET lsu == Baseline(D.lsu, t)
        D1 == [D EXCEPT !.lsu = lsu, !.call[c].call_dt = t]
    IN IF Throttled(t, lsu)
       THEN ThrottledLoop([D1 EXCEPT !.call[c].path = "throttled",
                                     !.call[c].todo = KnownInOrder(D.devs, D.ents)], c)
       ELSE LET D2 == [D1 EXCEPT !.call[c].path = "full"]
            IN IF D2.acct = None THEN Issue(D2, c, "account_v10")
               ELSE AfterAccount(D2, c)

\* Variant of the fetches that gives up when the newer endpoint fails.
OnFetch_NoFallback(D, c, out, t) ==
    LET stage == D.pc[c]
        failed == out.kind = "fail"
        value == IF out.kind = "ok" THEN 1 ELSE None
    IN IF stage = "account_v10"
       THEN IF failed THEN Release(D, c, "error")
            ELSE AfterAccount([D EXCEPT !.acct = value], c)
       ELSE IF stage = "account_legacy"
       THEN IF failed THEN Release(D, c, "error")
            ELSE AfterAccount([D EXCEPT !.acct = value], c)
       ELSE IF stage = "babies_v10"
       THEN IF failed THEN Release(D, c, "error")
            ELSE Issue([D EXCEPT !.baby = value], c, "devices_v11")
       ELSE IF stage = "baby_legacy"
       THEN IF failed THEN Release(D, c, "error")
            ELSE Issue([D EXCEPT !.baby = value], c, "devices_v11")
       ELSE IF stage = "devices_v11"
       THEN IF failed THEN Release(D, c, "error")
            ELSE FullLoop([D EXCEPT !.call[c].todo = out.list], c, t)
       ELSE IF stage = "devices_legacy"
       THEN IF failed THEN Release(D, c, "error")
            ELSE FullLoop([D EXCEPT !.call[c].todo = out.list], c, t)
       ELSE IF stage = "config"
       THEN IF failed THEN Release(D, c, "error")
            ELSE Issue(D, c, "session_f")
       ELSE IF stage = "session_f"
       THEN IF failed THEN Release(D, c, "error")
            ELSE FullLoop([D EXCEPT !.call[c].todo = Tail(@)], c, t)
       ELSE IF failed THEN Release(D, c, "error")
            ELSE ThrottledLoop([D EXCEPT !.call[c].todo = Tail(@)], c)

\* The fetch caller c waits for has come back with out, at clock reading t.
\* api.py:411-436 (account), 515-539 (baby), 438-496 (devices, config,
\* session), 730-732 (throttled session).
OnFetch(D, c, out, t) ==
    LET stage == D.pc[c]
        failed == out.kind = "fail"
        value == IF out.kind = "ok" THEN 1 ELSE None
    IN IF stage = "account_v10"
       THEN IF failed THEN Issue(D, c, "account_legacy")
            ELSE AfterAccount([D EXCEPT !.acct = value], c)
       ELSE IF stage = "account_legacy"
       THEN IF failed THEN Release(D, c, "error")
            ELSE AfterAccount([D EXCEPT !.acct = value], c)
       ELSE IF stage = "babies_v10"
       THEN IF failed THEN Issue(D, c, "baby_legacy")
            ELSE Issue([D EXCEPT !.baby = value], c, "devices_v11")
       ELSE IF stage = "baby_legacy"
       THEN IF failed THEN Release(D, c, "error")
            ELSE Issue([D EXCEPT !.baby = value], c, "devices_v11")
       ELSE IF stage = "devices_v11"
       THEN IF failed THEN Issue(D, c, "devices_legacy")
            ELSE FullLoop([D EXCEPT !.call[c].todo = out.list], c, t)
       ELSE IF stage = "devices_legacy"
       THEN IF failed THEN Release(D, c, "error")
            ELSE FullLoop([D EXCEPT !.call[c].todo = out.list], c, t)
       ELSE IF stage = "config"
       THEN IF failed THEN Release(D, c, "error")
            ELSE Issue(D, c, "session_f")
       ELSE IF stage = "session_f"
       THEN IF failed THEN Release(D, c, "error")
            ELSE FullLoop([D EXCEPT !.call[c].todo = Tail(@)], c, t)
       ELSE IF failed THEN Release(D, c, "error")
            ELSE ThrottledLoop([D EXCEPT !.call[c].todo = Tail(@)], c)

\* What a caller saw in its last call is kept only until another step runs
\* (bookkeeping of the model, not state of the program).
ForgetUpdates(cl, p, who) ==
    [c \in Callers |-> IF p[c] = "idle" /\ who # c THEN NoUpdate ELSE cl[c]]

DApply(D, c) ==
    /\ last_state_update' = D.lsu
    /\ devices' = D.devs
    /\ entities' = D.ents
    /\ account' = D.acct
    /\ baby' = D.baby
    /\ updLock' = D.lk
    /\ updQ' = D.lq
    /\ upc' = D.pc
    /\ ucall' = ForgetUpdates(D.call, D.pc, c)

\* The clock reads at least the interval when the client is built (it is a
\* calendar time), so that call_dt - interval is a time too.
InitDevices ==
    /\ GatewayQuiet
    /\ now = DEFAULT_DEVICE_UPDATE_INTERVAL
    /\ opsLeft = MaxUpdates
    /\ TransportIdle
    /\ RegistryNew
    /\ JournalIdle

\* api.py:712-716: update_device_info is called; it takes the update gate at
\* once when it is free, else queues.
DStart(c) ==
    /\ upc[c] = "idle"
    /\ opsLeft > 0
    /\ LET D0 == [Registry EXCEPT !.call[c] = [NoUpdate EXCEPT !.made = now]]
       IN IF updLock = None
          THEN DApply(Enter([D0 EXCEPT !.lk = c], c, now), c)
          ELSE DApply([D0 EXCEPT !.lq = Append(@, c), !.pc[c] = "wait"], c)
    /\ opsLeft' = opsLeft - 1
    /\ UNCHANGED <<now, gRest, tvars, jvars, cvars>>

\* api.py:716: a call that waited for the update gate enters it.
DWake(c) ==
    /\ upc[c] = "wake"
    /\ DApply(Enter(Registry, c, now), c)
    /\ UNCHANGED <<gvars, tvars, jvars, cvars>>

\* A fetch of caller c comes back.
DResponse(c) ==
    /\ upc[c] \in FetchStages
    /\ \E out \in FetchOutcomes(upc[c]) :
           DApply(OnFetch([Registry EXCEPT !.call[c].last = out.kind], c, out, now), c)
    /\ UNCHANGED <<gvars, tvars, jvars, cvars>>

\* Time passes, while every call is idle or waits for a fetch or for the
\* gate (a call that has been handed the gate runs without such a delay).
DTick ==
    /\ \A c \in Callers : upc[c] # "wake"
    /\ \E d \in Advances : now + d <= MaxClock /\ now' = now + d
    /\ ucall' = ForgetUpdates(ucall, upc, None)
    /\ UNCHANGED <<last_state_update, devices, entities, account, baby, updLock,
                   updQ, upc>>
    /\ UNCHANGED <<gRest, opsLeft, tvars, jvars, cvars>>

NextDevices ==
    \/ \E c \in Callers : DStart(c)
    \/ \E c \in Callers : DWake(c)
    \/ \E c \in Callers : DResponse(c)
    \/ DTick

SpecDevices == InitDevices /\ [][NextDevices]_vars

----------------------------------------------------------------------------
\* The Journal Client (journal.py).  Its operations reach the service through
\* api.request; what that call returns or raises is the environment's choice.
\* Measurements are counted in hundredths, durations and clock readings in
\* seconds.

\* A falsy value other than None: the empty string, or zero.
Blank == 0

\* const.py:46-61: the enumerations journal.py imports (lines 13-15).
DIAPER_TYPES == <<"pee", "poo">>
FEEDING_TYPES == <<"breastmilk", "formula">>
JOURNAL_TYPES == [DIAPER |-> "diaper", BOTTLE_FEEDING |-> "bottlefeeding",
                  BREAST_FEEDING |-> "breastfeeding", SOLID_FOOD |-> "solidfood",
                  WEIGHT |-> "weight", HEIGHT |-> "height", HEAD |-> "head",
                  PUMPING |-> "pumping"]

\* journal.py:669: timedelta(days=7)
LookbackDays == 7

\* journal.py:311, 376, 498: the conversion factors, in ten-thousandths.
OzToMl == 295735
OzToGram == 283495
InchToCm == 25400

\* Python truthiness of an optional id, note or duration.
Truthy(x) == x # None /\ x # Blank

\* x in allowed, for a Python list.
InList(x, allowed) == \E i \in DOMAIN allowed : allowed[i] = x

AllIn_FirstOnly(items, allowed) == items = <<>> \/ InList(items[1], allowed)

\* journal.py:237-239: the loop raises at the first item outside the list.
AllIn(items, allowed) == \A i \in DOMAIN items : InList(items[i], allowed)

\* round(x, 2) of the float x whose decimal value is n / d hundredths: the
\* nearest hundredth.  Where the decimal value lies exactly half way, the
\* binary float lies on one side or the other; up tells on which.
Rounded(n, d, up) ==
    LET q == n \div d
        r == n % d
    IN  IF 2 * r < d THEN q
        ELSE IF 2 * r > d THEN q + 1
        ELSE IF up THEN q + 1 ELSE q

\* journal.py:311, 376, 498, 557: round(imperial * factor, 2)
ToMetric(v, factor, up) == Rounded(v * factor, 10000, up)

\* Variant of the conversion back that cuts the digits off.
ToImperial_Truncating(v, factor, up) == (v * 10000) \div factor

\* journal.py:313, 378, 500, 559: round(metric / factor, 2)
ToImperial(v, factor, up) == Rounded(v * 10000, factor, up)

\* journal.py:310-313: the missing one of the two amounts, from the other.
BothUnits(imperial, metric, factor, up) ==
    IF imperial # None /\ metric = None
    THEN [imperial |-> imperial, metric |-> ToMetric(imperial, factor, up)]
    ELSE IF metric # None /\ imperial = None
    THEN [imperial |-> ToImperial(metric, factor, up), metric |-> metric]
    ELSE [imperial |-> imperial, metric |-> metric]

\* strftime("%Y-%m-%dT%H:%M:%SZ"): the reading to the second.
FormatTime(t) == t.sec

IsComplete_WithoutUserId(updates) ==
    \A f \in {"type", "startTime", "babyId", "data"} : f \in DOMAIN updates

\* journal.py:425-426
IsComplete(updates) ==
    \A f \in {"type", "startTime", "babyId", "userId", "data"} : f \in DOMAIN updates

CreateOps == {"create_diaper_entry", "create_feeding_entry", "create_weight_entry",
              "create_height_entry", "create_head_entry",
              "create_breast_feeding_entry"}

MeasureOps == {"create_weight_entry", "create_height_entry", "create_head_entry"}

\* The checks a create operation makes on its arguments before anything else:
\* journal.py:237-239, 294-298, 367-368, 489-490, 548-549, 611-612.
InvalidArgument(a) ==
    CASE a.op = "create_diaper_entry" -> ~AllIn(a.diaper_types, DIAPER_TYPES)
      [] a.op = "create_feeding_entry" ->
            \/ a.feeding_type \notin {JOURNAL_TYPES.BOTTLE_FEEDING,
                                      JOURNAL_TYPES.BREAST_FEEDING}
            \/ ~InList(a.milk_type, FEEDING_TYPES)
      [] a.op \in MeasureOps -> a.imperial = None /\ a.metric = None
      [] a.op = "create_breast_feeding_entry" ->
            a.last_used_breast \notin {"left", "right"}

WithNote_Always(body, note) == body @@ [note |-> note]

\* journal.py:255-256 and alike: the note is sent only when truthy.
WithNote(body, note) == IF Truthy(note) THEN body @@ [note |-> note] ELSE body

\* The data member of the body of each create operation.
DataOf(a) ==
    CASE a.op = "create_diaper_entry" -> [types |-> a.diaper_types]
      [] a.op = "create_feeding_entry" ->
            IF a.feeding_type = JOURNAL_TYPES.BOTTLE_FEEDING
            THEN LET u == BothUnits(a.imperial, a.metric, OzToMl, a.tie_up)
                 IN  [type |-> a.milk_type, amountImperial |-> u.imperial,
                      amountMetric |-> u.metric]
            ELSE [type |-> a.milk_type]
      [] a.op = "create_weight_entry" ->
            LET u == BothUnits(a.imperial, a.metric, OzToGram, a.tie_up)
            IN  [weightImperial |-> u.imperial, weightMetric |-> u.metric]
      [] a.op = "create_height_entry" ->
            LET u == BothUnits(a.imperial, a.metric, InchToCm, a.tie_up)
            IN  [heightImperial |-> u.imperial, heightMetric |-> u.metric]
      [] a.op = "create_head_entry" ->
            LET u == BothUnits(a.imperial, a.metric, InchToCm, a.tie_up)
            IN  [circumferenceImperial |-> u.imperial,
                 circumferenceMetric |-> u.metric]
      [] a.op = "create_breast_feeding_entry" ->
            LET total == (IF Truthy(a.left_duration) THEN a.left_duration ELSE 0)
                         + (IF Truthy(a.right_duration) THEN a.right_duration ELSE 0)
                base == [lastUsedBreast |-> a.last_used_breast,
                         totalDuration |-> total]
                l == IF a.left_duration # None
                     THEN base @@ [left |-> [duration |-> a.left_duration]]
                     ELSE base
            IN  IF a.right_duration # None
                THEN l @@ [right |-> [duration |-> a.right_duration]]
                ELSE l

TypeOf(a) ==
    CASE a.op = "create_diaper_entry" -> JOURNAL_TYPES.DIAPER
      [] a.op = "create_feeding_entry" -> a.feeding_type
      [] a.op = "create_weight_entry" -> JOURNAL_TYPES.WEIGHT
      [] a.op = "create_height_entry" -> JOURNAL_TYPES.HEIGHT
      [] a.op = "create_head_entry" -> JOURNAL_TYPES.HEAD
      [] a.op = "create_breast_feeding_entry" -> JOURNAL_TYPES.BREAST_FEEDING

\* The body a create operation posts, given the user id it works with.
Body(a, user_id) ==
    LET base == [type |-> TypeOf(a), startTime |-> FormatTime(a.start_time),
                 babyId |-> a.baby_id, userId |-> user_id, data |-> DataOf(a)]
        timed == IF a.op = "create_breast_feeding_entry"
                 THEN base @@ [endTime |-> FormatTime(a.end_time)]
                 ELSE base
    IN  WithNote(timed, a.note)

\* journal.py:259-264
PostRequest(body) == [method |-> "post", uri |-> "JOURNALS_CREATE_URI", json |-> body]

\* journal.py:440-445
PutRequest(entry_id, payload) ==
    [method |-> "put", uri |-> "JOURNALS_CREATE_URI", entry_id |-> entry_id,
     json |-> payload]

\* journal.py:668-671, 96-105 and 80-92: the query _get_user_id makes at clock
\* reading t.
TrackingQuery(baby_id, t) ==
    [method |-> "get", uri |-> "JOURNALS_TRACKING_URI", baby_id |-> baby_id,
     params |-> [fromDateTime |-> t - LookbackDays * 24 * 60 * 60,
                 toDateTime |-> t,
                 journalType |-> JOURNAL_TYPES.DIAPER]]

\* What api.request raises.
ErrorKinds == {"RequestError", "AuthenticationError"}

DetectedUserId_Last(resp) ==
    IF /\ resp.kind = "json"
       /\ Len(resp.entries) > 0
       /\ Truthy(resp.entries[Len(resp.entries)].userId)
    THEN resp.entries[Len(resp.entries)].userId
    ELSE None

\* journal.py:672-675: the user id of the first entry, None if there is
\* none to take.
DetectedUserId(resp) ==
    IF /\ resp.kind = "json"
       /\ Len(resp.entries) > 0
       /\ Truthy(resp.entries[1].userId)
    THEN resp.entries[1].userId
    ELSE None

\* The operation in progress, as one record.
Journal == [pc |-> jpc, call |-> jcall, log |-> jlog, result |-> jresult]

\* The operation raises.
Raise(J, kind, cause) ==
    [J EXCEPT !.pc = "done", !.result = [kind |-> kind, cause |-> cause]]

\* await self.api.request(...)
ApiRequest(J, req, at) == [J EXCEPT !.pc = at, !.log = Append(@, req)]

\* A create operation from the point where it has its user id: journal.py
\* 245-264, 304-341, 374-400, 496-522, 555-581, 618-652.
AfterUserId(J) ==
    LET a == J.call.args
    IN  IF /\ a.op = "create_feeding_entry"
           /\ a.feeding_type = JOURNAL_TYPES.BOTTLE_FEEDING
           /\ a.imperial = None
           /\ a.metric = None
        THEN Raise(J, "ValueError", "amount")
        ELSE ApiRequest(J, PostRequest(Body(a, J.call.user_id)), "send")

\* An operation called with arguments a at clock reading t, up to its first
\* await or its end.
Begin(a, t) ==
    LET J == [pc |-> "idle",
              call |-> [args |-> a, user_id |-> a.user_id,
                        diaper_entries |-> NoResponse],
              log |-> <<>>, result |-> NoOutcome]
    IN  IF a.op = "update_journal_entry"
        THEN IF IsComplete(a.updates)
             THEN ApiRequest(J, PutRequest(a.entry_id, a.updates), "send")
             ELSE Raise(J, "ValueError", "partial")
        ELSE IF InvalidArgument(a) THEN Raise(J, "ValueError", "argument")
        ELSE IF ~Truthy(a.user_id)
             THEN ApiRequest(J, TrackingQuery(a.baby_id, t), "query")
             ELSE AfterUserId(J)

\* journal.py:671-682: the tracking query has returned or raised.
OnQuery(J, resp) ==
    LET K == [J EXCEPT !.call.diaper_entries = resp]
        u == DetectedUserId(resp)
    IN  IF resp.kind \in ErrorKinds THEN Raise(K, "ValueError", resp.kind)
        ELSE IF u = None THEN Raise(K, "ValueError", "ValueError")
        ELSE AfterUserId([K EXCEPT !.call.user_id = u])

\* The POST or PUT has returned or raised.
OnSend(J, out) ==
    IF out = "ok"
    THEN [J EXCEPT !.pc = "done", !.result = [kind |-> "ok", cause |-> "none"]]
    ELSE Raise(J, out, out)

JApply(J) ==
    /\ jpc' = J.pc
    /\ jcall' = J.call
    /\ jlog' = J.log
    /\ jresult' = J.result
    /\ UNCHANGED <<gvars, tvars, dvars, cvars>>

\* The arguments the callers pass.
Babies == {1, 2}
UserArgs == {None, Blank, 1}
Notes == {None, Blank, 7}
Times == {[sec |-> 10, usec |-> 0], [sec |-> 10, usec |-> 5]}
DiaperLists == {<<>>, <<"pee">>, <<"poo", "pee">>, <<"pee", "wet">>, <<"wet">>}
FeedingTypeArgs == {"bottlefeeding", "breastfeeding", "solidfood"}
MilkTypeArgs == {"breastmilk", "formula", "water"}
Amounts == {<<None, None, FALSE>>, <<400, None, FALSE>>, <<None, 11829, FALSE>>,
            <<400, 11829, FALSE>>, <<1000, None, FALSE>>, <<1000, None, TRUE>>}
BreastArgs == {"left", "right", "both"}

Common ==
    {[NoArgs EXCEPT !.baby_id = b, !.user_id = u, !.start_time = t, !.note = n] :
        b \in Babies, u \in UserArgs, t \in Times, n \in Notes}

DiaperCalls ==
    {[c EXCEPT !.op = "create_diaper_entry", !.diaper_types = d] :
        c \in Common, d \in DiaperLists}

FeedingCalls ==
    {[c EXCEPT !.op = "create_feeding_entry", !.feeding_type = f, !.milk_type = m,
               !.imperial = q[1], !.metric = q[2], !.tie_up = q[3]] :
        c \in Common, f \in FeedingTypeArgs, m \in MilkTypeArgs, q \in Amounts}

MeasureCalls ==
    {[c EXCEPT !.op = o, !.imperial = q[1], !.metric = q[2], !.tie_up = q[3]] :
        c \in Common, o \in MeasureOps, q \in Amounts}

BreastCalls ==
    {[c EXCEPT !.op = "create_breast_feeding_entry", !.end_time = [sec |-> 70, usec |-> 0],
               !.last_used_breast = s, !.left_duration = l, !.right_duration = r] :
        c \in Common, s \in BreastArgs, l \in {None, Blank, 60}, r \in {None, 30}}

\* A complete journal entry, and the mappings a caller may pass as updates.
CompleteEntry ==
    [type |-> "diaper", startTime |-> 10, babyId |-> 1, userId |-> 1,
     data |-> [types |-> <<"pee">>], note |-> 7]

Without(m, fields) == [f \in DOMAIN m \ fields |-> m[f]]

UpdateMappings ==
    {Without(CompleteEntry, {f}) : f \in DOMAIN CompleteEntry}
    \cup {CompleteEntry, Without(CompleteEntry, DOMAIN CompleteEntry),
          Without(CompleteEntry, {"userId", "note"}),
          [CompleteEntry EXCEPT !.userId = None]}

UpdateCalls ==
    {[NoArgs EXCEPT !.op = "update_journal_entry", !.entry_id = 1, !.updates = m] :
        m \in UpdateMappings}

JournalCalls == DiaperCalls \cup FeedingCalls \cup MeasureCalls \cup BreastCalls
                \cup UpdateCalls

\* What the service may answer the tracking query with.
DiaperEntry(u) == [userId |-> u]
EntryLists == {<<>>, <<DiaperEntry(1)>>, <<DiaperEntry(None), DiaperEntry(2)>>,
               <<DiaperEntry(Blank)>>, <<DiaperEntry(2), DiaperEntry(1)>>}
QueryOutcomes ==
    {[kind |-> "json", entries |-> e] : e \in EntryLists}
    \cup {[kind |-> k, entries |-> <<>>] : k \in ErrorKinds \cup {"null"}}

SendOutcomes == {"ok"} \cup ErrorKinds

\* The clock readings at which the operations are called.
JournalClocks == {LookbackDays * 24 * 60 * 60, LookbackDays * 24 * 60 * 60 + 3600}

InitJournal ==
    /\ GatewayQuiet
    /\ now \in JournalClocks
    /\ opsLeft = 0
    /\ TransportIdle
    /\ RegistryNew
    /\ JournalIdle

\* A caller calls an operation of the journal manager.
JStart(a) ==
    /\ jpc = "idle"
    /\ JApply(Begin(a, now))

\* The tracking query of _get_user_id completes.
JQueryResponse(resp) ==
    /\ jpc = "query"
    /\ JApply(OnQuery(Journal, resp))

\* The POST or PUT completes.
JSendResponse(out) ==
    /\ jpc = "send"
    /\ JApply(OnSend(Journal, out))

\* The caller has the outcome; the operation's locals are gone, and the
\* journal manager keeps nothing from one operation to the next (journal.py:
\* 24-26).
JReturn ==
    /\ jpc = "done"
    /\ JApply([pc |-> "idle",
               call |-> [args |-> NoArgs, user_id |-> None,
                         diaper_entries |-> NoResponse],
               log |-> <<>>, result |-> NoOutcome])

NextJournal ==
    \/ \E a \in JournalCalls : JStart(a)
    \/ \E resp \in QueryOutcomes : JQueryResponse(resp)
    \/ \E out \in SendOutcomes : JSendResponse(out)
    \/ JReturn

SpecJournal == InitJournal /\ [][NextJournal]_vars

\* The task ids never run out: a new task always finds a free id.
TaskIdsSuffice == \E i \in TaskIds : tasks[i].st = "free"

----------------------------------------------------------------------------
\* The claims.

AllReturned == opsLeft = 0 /\ \A c \in Callers : pc[c] = "idle"

JustReturned(c, op) == cur = c /\ pc[c] = "idle" /\ call[c].op = op

\* C1 as stated: under SpecTwoRequests (two requests, every login succeeds,
\* no 401) exactly one authentication network exchange is performed in
\* total.
C1_ExactlyOneExchange ==
    /\ authNet <= 1
    /\ AllReturned => authNet = 1

\* C1, amended: under SpecTwoRequests, as long as the token obtained by the
\* first caller is stored and has not reached its recorded expiry, exactly
\* one authentication network exchange has been performed; that exchange
\* runs while the first caller holds the gate and waits for it, and every
\* dispatch carries the token it obtained.
C1_OneExchangeWhileUnexpired ==
    /\ (security_token[1] = 1 /\ now < security_token[3]) => authNet = 1
    /\ (minted = 0 /\ InFlight(tasks) # {}) =>
           /\ lock # None
           /\ pc[lock] = "auth_gate"
           /\ \A c \in Callers \ {lock} : pc[c] \in {"idle", "start", "lock_wait"}
    /\ \A c \in Callers : pc[c] = "net1" => call[c].hdr = 1

\* Both requests have returned, the second having passed the gate without
\* authenticating, with the first token still unexpired.
C1_Witness ==
    /\ AllReturned
    /\ authNet = 1
    /\ now < security_token[3]
    /\ \E c \in Callers :
           /\ JustReturned(c, "request")
           /\ call[c].result = "ok"
           /\ call[c].branch = "valid"
           /\ call[c].hdr = 1

\* C2 as stated: a request whose first dispatch got a 401 and whose retry
\* succeeded returns the successful result, and the Credential then holds a
\* bearer token and an expiry.
C2_RetryLeavesNewToken ==
    \A c \in Callers :
        (JustReturned(c, "request") /\ call[c].first = "e401" /\ call[c].second = "ok")
            => /\ call[c].result = "ok"
               /\ security_token[1] # None
               /\ security_token[3] # None

\* C3: a request whose first dispatch and retry both got a 401 fails with an
\* Authentication error, and the Credential's bearer token is null when it
\* fails.
C3_Double401 ==
    \A c \in Callers :
        (JustReturned(c, "request") /\ call[c].first = "e401" /\ call[c].second = "e401")
            => /\ call[c].result = "AuthenticationError"
               /\ security_token[1] = None

C3_Witness ==
    \E c \in Callers :
        /\ JustReturned(c, "request")
        /\ call[c].first = "e401"
        /\ call[c].second = "e401"
        /\ call[c].result = "AuthenticationError"

\* C4 as stated: the retry after a 401 and a successful blocking
\* re-authentication carries, as its Authorization header, the bearer token
\* the Credential holds after that re-authentication.
C4_RetryCarriesNewToken ==
    \A c \in Callers : pc[c] = "net2" => call[c].hdr = call[c].retryTok

\* C5 as stated: at most one execution of _authenticate is in flight, and
\* it is the one in the task slot (the slot is emptied only after its task
\* has completed), so whoever waits for a task waits for the slot's task.
C5_SingleAuthentication ==
    /\ Cardinality(InFlight(tasks)) <= 1
    /\ \A i \in InFlight(tasks) : authentication_task = i
    /\ \A i \in TaskIds : tasks[i].waiters # <<>> => authentication_task = i

\* C6: the Credential's bearer token and expiry are both null or both set.
C6_TokenAndExpiryTogether ==
    (security_token[1] = None) <=> (security_token[3] = None)

\* A Credential that was set by a login and then cleared by a 401.
C6_Witness ==
    /\ security_token[1] = None
    /\ security_token[3] = None
    /\ security_token[4] # None

\* C7 as stated: a successful refresh exchange leaves in the Credential the
\* bearer token and refresh token of the refresh response and a new expiry
\* derived from it.
C7_RefreshReplacesCredential ==
    [][\A i \in TaskIds :
          (HeadIs("task", i) /\ tasks[i].st = "refresh" /\ minted' = minted + 1)
              => /\ security_token'[1] = minted'
                 /\ security_token'[2] = minted'
                 /\ security_token'[3] # None
                 /\ security_token'[3] > now]_vars

\* The step in which caller c starts an operation: scheduled, or straight
\* after its previous operation returned.
StartStep(c) ==
    \/ pc[c] = "start" /\ pc'[c] # "start"
    \/ /\ pc[c] = "idle"
       /\ cur = c
       /\ opsLeft' = opsLeft - 1
       /\ \A d \in Callers \ {c} : pc'[d] = pc[d]

\* The step in which request() of caller c runs the gate's expiry check.
GateStep(c) ==
    /\ call'[c].op = "request"
    /\ call'[c].branch # "none"
    /\ \/ StartStep(c)
       \/ pc[c] = "lock_wait" /\ pc'[c] # "lock_wait"

C9_WaitClearsSlot ==
    \A c \in Callers :
        (JustReturned(c, "authT") /\ call[c].result # "InvalidCredentialsError")
            => /\ authentication_task = None
               /\ call[c].result \in {"ok", "AuthenticationError"}

\* The step in which caller c calls authenticate() directly.
AuthCallStep(c) ==
    /\ call'[c].op \in {"authT", "authF"}
    /\ StartStep(c)

\* C10: with the username or the password unset, or the credentials marked
\* invalid, authenticate() fails at once with InvalidCredentials; it creates
\* no task, starts no network exchange and leaves the Credential and the
\* task slot as they were.
C10_InvalidCredentialsFailFast ==
    [][\A c \in Callers :
          (/\ AuthCallStep(c)
           /\ \/ credentials.username = None
              \/ credentials.password = None
              \/ invalid_credentials)
              => /\ call'[c].result = "InvalidCredentialsError"
                 /\ pc'[c] = "idle"
                 /\ tasks' = tasks
                 /\ authentication_task' = authentication_task
                 /\ security_token' = security_token
                 /\ authNet' = authNet
                 /\ \A n \in 1..Len(readyQ') : readyQ'[n].k # "task"
                        \/ \E m \in 1..Len(readyQ) : readyQ[m] = readyQ'[n]]_vars

C10_Witness ==
    \E c \in Callers :
        /\ cur = c
        /\ pc[c] = "idle"
        /\ call[c].op \in {"authT", "authF"}
        /\ call[c].result = "InvalidCredentialsError"
        /\ (credentials.username = None \/ credentials.password = None)
        /\ authentication_task = None
        /\ authNet = 0

\* The step in which a dispatch of caller c's request() ends.
DispatchEnds(c) ==
    /\ pc[c] \in {"net1", "net2"}
    /\ HeadIs("caller", c)
    /\ readyQ' # readyQ

\* C15: a request() whose dispatch (the first, or the retry after a 401)
\* ends in a non-401 HTTP error or a network-level error fails with a
\* Request error in that step; the step leaves the Credential as it was and
\* starts no authentication.
C15_OtherErrorsAreRequestErrors ==
    [][\A c \in Callers :
          (/\ DispatchEnds(c)
           /\ \/ pc[c] = "net1" /\ call'[c].first \in {"ehttp", "enet"}
              \/ pc[c] = "net2" /\ call'[c].second \in {"ehttp", "enet"})
              => /\ pc'[c] = "idle"
                 /\ call'[c].result = "RequestError"
                 /\ security_token' = security_token
                 /\ authentication_task' = authentication_task
                 /\ tasks' = tasks
                 /\ \A n \in 1..Len(readyQ') : readyQ'[n].k # "task"
                        \/ \E m \in 1..Len(readyQ) : readyQ[m] = readyQ'[n]]_vars

\* A request whose retry after a 401 ended in a network error.
C15_Witness ==
    \E c \in Callers :
        /\ JustReturned(c, "request")
        /\ call[c].first = "e401"
        /\ call[c].second = "enet"
        /\ call[c].result = "RequestError"
        /\ security_token[1] # None

----------------------------------------------------------------------------
\* The claims about the device registry.

\* The step in which update_device_info of caller c has the update gate and
\* reads the clock (api.py:717).
EnterStep(c) ==
    /\ ucall'[c].call_dt # None
    /\ \/ upc[c] = "wake"
       \/ upc[c] = "idle" /\ opsLeft' = opsLeft - 1

\* A step of update_device_info of caller c.
UpdateStep(c) ==
    \/ EnterStep(c)
    \/ upc[c] \in FetchStages /\ upc'[c] # upc[c]
    \/ upc[c] \in FetchStages /\ ucall'[c] # ucall[c]

\* The step in which update_device_info of caller c returns or raises.
UpdateEnds(c) == UpdateStep(c) /\ upc'[c] = "idle"

CountOf(log, kind) == Cardinality({i \in 1..Len(log) : log[i] = kind})

OnlySessions(log) == \A i \in 1..Len(log) : log[i] = "session"

\* C16 as stated: with a full refresh completed at t, a call made at or after
\* t and before t+120s issues only session fetches, and a call made once
\* 120s have elapsed takes the full-refresh path and, when it succeeds, has
\* fetched the device list and leaves last_state_update at the clock reading
\* of its end.
C16_ThrottledByTimeOfCall ==
    [][\A c \in Callers :
          /\ (EnterStep(c) /\ last_state_update # None) =>
                 /\ (/\ last_state_update <= ucall'[c].made
                     /\ ucall'[c].made < last_state_update + 120)
                        => (ucall'[c].path = "throttled" /\ OnlySessions(ucall'[c].log))
                 /\ ucall'[c].made >= last_state_update + 120
                        => ucall'[c].path = "full"
          /\ (UpdateEnds(c) /\ ucall'[c].path = "full" /\ ucall'[c].result = "ok")
                 => /\ CountOf(ucall'[c].log, "devices") >= 1
                    /\ last_state_update' = now]_vars

\* C16, amended: the clock reading that counts is the one the call takes
\* once it holds the update gate (call_dt). With last_state_update = t, a
\* call whose call_dt is before t+120s issues only session fetches; a call
\* whose call_dt is t+120s or later takes the full-refresh path and, when it
\* completes without error, has fetched the device list, as many configs as
\* sessions, and leaves last_state_update at the clock reading of its end,
\* later than t.
C16_ThrottledByTimeOfEntry ==
    [][\A c \in Callers :
          /\ EnterStep(c) =>
                 /\ ucall'[c].call_dt = now
                 /\ ucall'[c].made <= now
                 /\ (last_state_update # None /\ now < last_state_update + 120)
                        => /\ ucall'[c].path = "throttled"
                           /\ OnlySessions(ucall'[c].log)
                           /\ last_state_update' = last_state_update
                 /\ (last_state_update = None \/ now >= last_state_update + 120)
                        => ucall'[c].path = "full"
          /\ (UpdateStep(c) /\ ucall'[c].path = "throttled")
                 => OnlySessions(ucall'[c].log)
          /\ (UpdateEnds(c) /\ ucall'[c].path = "full" /\ ucall'[c].result = "ok")
                 => /\ CountOf(ucall'[c].log, "devices") >= 1
                    /\ CountOf(ucall'[c].log, "config") = CountOf(ucall'[c].log, "session")
                    /\ last_state_update' = now
                    /\ last_state_update # None => last_state_update' > last_state_update
                    /\ now >= ucall'[c].call_dt]_vars

\* A call made 119s after a full refresh has ended, having fetched one
\* session and nothing else.
C16_Witness ==
    \E c \in Callers :
        /\ upc[c] = "idle"
        /\ ucall[c].path = "throttled"
        /\ ucall[c].result = "ok"
        /\ ucall[c].log = <<"session">>
        /\ ucall[c].call_dt = last_state_update + 119

\* C17: a step of a call on the throttled path, its last step included
\* (return or exception), leaves last_state_update as it is; whenever
\* last_state_update changes, the step is one of a call on the full-refresh
\* path.
C17_ThrottledKeepsTimestamp ==
    [][/\ \A c \in Callers :
             (UpdateStep(c) /\ ucall'[c].path = "throttled")
                 => last_state_update' = last_state_update
       /\ last_state_update' # last_state_update
             => \E c \in Callers : UpdateStep(c) /\ ucall'[c].path = "full"]_vars

\* A throttled call that failed in its session fetch.
C17_Witness ==
    \E c \in Callers :
        /\ upc[c] = "idle"
        /\ ucall[c].path = "throttled"
        /\ ucall[c].result = "error"
        /\ last_state_update # None
        /\ ucall[c].call_dt < last_state_update + 120

----------------------------------------------------------------------------
\* The claims about the Transport.

IsAttempt(e) == e.ev = "attempt"
IsSleep(e) == e.ev = "sleep"
IsOutcome(e) == e.ev \in AttemptOutcomes

AttemptsMade == Len(SelectSeq(tlog, IsAttempt))
OutcomesSeen == SelectSeq(tlog, IsOutcome)
SleepsDone == [i \in 1..Len(SelectSeq(tlog, IsSleep)) |-> SelectSeq(tlog, IsSleep)[i].n]

TDone == tpc \in {"returned", "raised"}

\* The send has ended and every attempt it made failed with a network error
\* or a non-401 HTTP error.
AllAttemptsFailedRetryably ==
    /\ TDone
    /\ \A i \in 1..Len(OutcomesSeen) : OutcomesSeen[i].ev \in {"ehttp", "enet"}

\* C11: a Transport send terminates, after at most 5 HTTP attempts; it
\* returns at the first successful attempt and makes no attempt after it; it
\* makes exactly 5 attempts when every attempt fails with a network error or
\* a non-401 HTTP error.
C11_AtMostFiveAttempts ==
    /\ [](/\ AttemptsMade <= 5
          /\ \A i \in 1..Len(tlog) :
                 tlog[i].ev = "ok" => (i = Len(tlog) /\ tpc = "returned")
          /\ tpc = "returned" => (tlog # <<>> /\ tlog[Len(tlog)].ev = "ok")
          /\ AllAttemptsFailedRetryably => AttemptsMade = 5)
    /\ (tpc = "loop" ~> TDone)

\* Five failed attempts, then the send has ended.
C11_Witness ==
    /\ AllAttemptsFailedRetryably
    /\ AttemptsMade = 5
    /\ tpc = "raised"

\* C12: an attempt that fails with HTTP 401 is the last thing the send does:
\* no attempt and no sleep follows it, and the send has raised that 401,
\* whatever number of retryable failures came before.
C12_Raises401AtOnce ==
    \A i \in 1..Len(tlog) :
        tlog[i].ev = "e401"
            => /\ i = Len(tlog)
               /\ tpc = "raised"
               /\ tresult = [kind |-> "e401", at |-> tlog[i].n]

\* A 401 on the third attempt, after two retryable failures.
C12_Witness ==
    /\ tpc = "raised"
    /\ tresult = [kind |-> "e401", at |-> 3]
    /\ Len(OutcomesSeen) = 3

\* C13 as stated: a send whose attempts all fail sleeps for 2s, 4s, 5s, 5s,
\* 5s; no wait exceeds 5 seconds and none precedes the first attempt.
C13_FiveSleeps ==
    /\ AllAttemptsFailedRetryably => SleepsDone = <<2, 4, 5, 5, 5>>
    /\ \A i \in 1..Len(SleepsDone) : SleepsDone[i] <= 5
    /\ tlog # <<>> => tlog[1].ev = "attempt"

\* C13, amended: the wait before attempt k+1 is min(2^k, 5) seconds, so a
\* send whose five attempts all fail sleeps for 2s, 4s, 5s, 5s (four waits,
\* none after the last attempt); no wait exceeds 5 seconds, none precedes
\* the first attempt, and every wait lies between two consecutive attempts.
C13_FourSleeps ==
    /\ AllAttemptsFailedRetryably => SleepsDone = <<2, 4, 5, 5>>
    /\ \A i \in 1..Len(SleepsDone) :
           /\ SleepsDone[i] = (IF i = 1 THEN 2 ELSE IF i = 2 THEN 4 ELSE 5)
           /\ SleepsDone[i] <= 5
    /\ tlog # <<>> => tlog[1].ev = "attempt"
    /\ \A i \in 1..Len(tlog) :
           tlog[i].ev = "sleep"
               => /\ i > 1
                  /\ tlog[i - 1].ev \in {"ehttp", "enet"}
                  /\ (i < Len(tlog) => tlog[i + 1].ev = "attempt")
                  /\ (i = Len(tlog) => tpc = "sleeping")

\* All five attempts failed and the send slept four times.
C13_Witness ==
    /\ AllAttemptsFailedRetryably
    /\ AttemptsMade = 5
    /\ Len(SleepsDone) = 4

\* C14: a send that has exhausted its attempts raises the exception of the
\* last failed attempt; the generic Request error is raised only when no
\* exception was captured.
C14_RaisesLastException ==
    /\ (AllAttemptsFailedRetryably /\ tpc = "raised")
           => /\ tresult.at = AttemptsMade
              /\ tresult.kind = OutcomesSeen[Len(OutcomesSeen)].ev
    /\ (tpc = "raised" /\ tresult.kind = "RequestError") => resp_exc = NoExc

\* Exhausted, the last two attempts having failed differently.
C14_Witness ==
    /\ AllAttemptsFailedRetryably
    /\ tpc = "raised"
    /\ Len(OutcomesSeen) = 5
    /\ OutcomesSeen[4].ev = "ehttp"
    /\ OutcomesSeen[5].ev = "enet"
    /\ tresult = [kind |-> "enet", at |-> 5]

----------------------------------------------------------------------------
\* The unit conversion of the create operations as a function of its own: a
\* measurement given in the imperial unit is converted as by a call that
\* passes it alone, and the metric value that call posts is converted as by a
\* call that passes it alone.  Values are in hundredths.

Factors == {OzToMl, OzToGram, InchToCm}

InitConvert ==
    /\ GatewayQuiet
    /\ now = 0
    /\ opsLeft = 0
    /\ TransportIdle
    /\ RegistryNew
    /\ jpc = "idle"
    /\ jcall = [args |-> NoArgs, user_id |-> None, diaper_entries |-> NoResponse]
    /\ jlog = <<>>
    /\ jresult = NoOutcome
    /\ conv \in {[NoConversion EXCEPT !.stage = "given", !.factor = f, !.imperial = v] :
                    f \in Factors, v \in 0..MaxImperial}

\* journal.py:310-311 (376, 498, 557): only the imperial value was passed.
ConvertToMetric ==
    /\ conv.stage = "given"
    /\ \E up \in BOOLEAN :
           conv' = [conv EXCEPT
                       !.stage = "metric",
                       !.metric = BothUnits(conv.imperial, None, conv.factor, up).metric]
    /\ UNCHANGED <<gvars, tvars, dvars, jvars>>

\* journal.py:312-313 (378, 500, 559): only the metric value was passed.
ConvertBack ==
    /\ conv.stage = "metric"
    /\ \E up \in BOOLEAN :
           conv' = [conv EXCEPT
                       !.stage = "back",
                       !.back = BothUnits(None, conv.metric, conv.factor, up).imperial]
    /\ UNCHANGED <<gvars, tvars, dvars, jvars>>

NextConvert == ConvertToMetric \/ ConvertBack

SpecConvert == InitConvert /\ [][NextConvert]_vars

\* A session of one more operation than Spec allows, on a new client with
\* valid credentials: request() calls and non-blocking authenticate() calls,
\* where every dispatch is answered with success or a 401 and every
\* authentication exchange succeeds.
InitSession ==
    /\ GatewayQuiet
    /\ now = 0
    /\ opsLeft = MaxOps + 1
    /\ TransportIdle
    /\ RegistryNew
    /\ JournalIdle

NextSession ==
    \/ \E c \in Callers : Spawn(c)
    \/ \E c \in Callers : RunStartOf(c, {"request", "authF"})
    \/ \E c \in Callers : ContinueOf(c, {"request", "authF"})
    \/ \E c \in Callers : RunLockWake(c)
    \/ \E c \in Callers : RunAuthGate(c)
    \/ \E c \in Callers : RunAuth401(c)
    \/ \E c \in Callers : RunNet1Of(c, {"ok", "e401"})
    \/ \E c \in Callers : RunNet2Of(c, {"ok", "e401"})
    \/ \E c \in Callers : NetArriveCaller(c)
    \/ \E i \in TaskIds : RunTaskStart(i)
    \/ \E i \in TaskIds : RunTaskFinishOf(i, {"ok"})
    \/ \E i \in TaskIds : NetArriveTask(i)
    \/ Tick

SpecSession == InitSession /\ [][NextSession]_vars

----------------------------------------------------------------------------
\* One request() on a new client together with the Transport sends it makes:
\* each dispatch (api.py:187 and 215) is one send of request.py:37-88, and
\* the gateway goes on with what that send returned or raised.

InitOneRequest ==
    /\ credentials = [username |-> 1, password |-> 1]
    /\ invalid_credentials = FALSE
    /\ security_token = <<None, None, None, None>>
    /\ authentication_task = None
    /\ tasks = [i \in TaskIds |-> FreeTask]
    /\ lock = None
    /\ lockQ = <<>>
    /\ readyQ = <<Entry("caller", 1, "none")>>
    /\ pc = [c \in Callers |-> IF c = 1 THEN "start" ELSE "idle"]
    /\ call = [c \in Callers |-> NoCall]
    /\ cur = None
    /\ now = 0
    /\ minted = 0
    /\ authNet = 0
    /\ opsLeft = 0
    /\ TransportIdle
    /\ RegistryNew
    /\ JournalIdle

\* The sends begun so far: each starts with attempt number 1.
SendsBegun == Cardinality({i \in 1..Len(tlog) : tlog[i] = [ev |-> "attempt", n |-> 1]})

\* The dispatches caller c has reached.
DispatchesOf(c) == IF pc[c] = "net1" THEN 1 ELSE IF pc[c] = "net2" THEN 2 ELSE 0

\* api.py:187 and 215 -> request.py:37-40: the dispatch calls the send.
TSendFor(c) ==
    /\ SendsBegun < DispatchesOf(c)
    /\ tpc \in {"idle", "returned", "raised"}
    /\ tpc' = "loop"
    /\ attempt' = 0
    /\ resp_exc' = NoExc
    /\ UNCHANGED <<tlog, tresult, gvars, dvars, jvars, cvars>>

\* request.py:115-123 and api.py:187-242: what the dispatch ends in, given
\* what the send returned or raised; a response may still fail to decode,
\* and an exception that is no ClientError reaches the gateway as it is.
DispatchOutcomes(res) ==
    IF res.kind = "ok" THEN {"ok", "ejson"}
    ELSE IF res.kind \in {"e401", "ehttp", "enet"} THEN {res.kind}
    ELSE {"ejson"}

\* The send of caller c's dispatch has ended.
SendEnded(c) ==
    /\ tpc \in {"returned", "raised"}
    /\ SendsBegun = DispatchesOf(c)

NextOneRequest ==
    \/ \E c \in Callers : RunStartOf(c, {"request"})
    \/ \E c \in Callers : RunAuthGate(c)
    \/ \E c \in Callers : RunAuth401(c)
    \/ \E c \in Callers : TSendFor(c)
    \/ TLoop
    \/ TWake
    \/ TResponse
    \/ \E c \in Callers : SendEnded(c) /\ NetArriveCaller(c)
    \/ \E c \in Callers : SendEnded(c) /\ RunNet1Of(c, DispatchOutcomes(tresult))
    \/ \E c \in Callers : SendEnded(c) /\ RunNet2Of(c, DispatchOutcomes(tresult))
    \/ \E i \in TaskIds : RunTaskStart(i)
    \/ \E i \in TaskIds : RunTaskFinish(i)
    \/ \E i \in TaskIds : NetArriveTask(i)

SpecOneRequest == InitOneRequest /\ [][NextOneRequest]_vars

----------------------------------------------------------------------------
\* Journal Client claims, checked under SpecJournal.

JDone == jpc = "done"

MadeNoCall == jlog = <<>>

Posts(log) == {i \in DOMAIN log : log[i].method = "post"}

IsDiaperQuery(r, b, t) ==
    /\ r.method = "get"
    /\ r.uri = "JOURNALS_TRACKING_URI"
    /\ r.baby_id = b
    /\ r.params.journalType = "diaper"
    /\ r.params.fromDateTime = t - 7 * 24 * 60 * 60
    /\ r.params.toDateTime = t

\* The user ids the entries carry.
UserIdsIn(entries) == {entries[i].userId : i \in DOMAIN entries} \ {None, Blank}

\* The query has been answered (or was never made).
Answered == jpc # "query"

\* The arguments pass the checks a create operation makes before it looks for
\* a user id.
PassesChecks(a) ==
    /\ a.op = "create_diaper_entry" =>
           \A i \in DOMAIN a.diaper_types : a.diaper_types[i] \in {"pee", "poo"}
    /\ a.op = "create_feeding_entry" =>
           /\ a.feeding_type \in {"bottlefeeding", "breastfeeding"}
           /\ a.milk_type \in {"breastmilk", "formula"}
    /\ a.op \in {"create_weight_entry", "create_height_entry", "create_head_entry"} =>
           a.imperial # None \/ a.metric # None
    /\ a.op = "create_breast_feeding_entry" =>
           a.last_used_breast \in {"left", "right"}

\* C20, as stated: every create operation called without a user_id issues a
\* diaper-tracking query covering the last 7 days for that baby before the
\* POST, posts with a user id found in the returned entries, and fails with a
\* Value error without any POST if the entries hold no user id.
C20_EveryCallWithoutUserIdQueries ==
    LET a == jcall.args
        found == UserIdsIn(jcall.diaper_entries.entries)
    IN  (a.op \in CreateOps /\ a.user_id = None) =>
            /\ Len(jlog) >= 1
            /\ IsDiaperQuery(jlog[1], a.baby_id, now)
            /\ \A i \in Posts(jlog) : i > 1 /\ jlog[i].json.userId \in found
            /\ (Answered /\ found = {}) =>
                   JDone /\ jresult.kind = "ValueError" /\ Posts(jlog) = {}

\* C20, amended: a create operation called without a user_id whose arguments
\* pass its checks issues the diaper-tracking query for that baby and the last
\* 7 days first; a POST follows only the answer, and carries the user id of
\* the first returned entry; the call fails with a Value error without any
\* POST if the query raises or returns nothing, no entry, or a first entry
\* without user id.  A call whose arguments fail the checks issues no query.
C20_ValidCallWithoutUserIdQueries ==
    LET a == jcall.args
        resp == jcall.diaper_entries
        first == IF resp.kind = "json" /\ resp.entries # <<>>
                 THEN resp.entries[1].userId
                 ELSE None
    IN  (a.op \in CreateOps /\ a.user_id = None) =>
            IF PassesChecks(a)
            THEN /\ Len(jlog) >= 1
                 /\ IsDiaperQuery(jlog[1], a.baby_id, now)
                 /\ \A i \in Posts(jlog) :
                        /\ i = 2
                        /\ first \notin {None, Blank}
                        /\ jlog[i].json.userId = first
                 /\ (Answered /\ first \in {None, Blank}) =>
                        JDone /\ jresult.kind = "ValueError" /\ Posts(jlog) = {}
            ELSE JDone /\ jresult.kind = "ValueError" /\ MadeNoCall

\* A weight entry called without user_id has queried, found the user id 2 in
\* the first of two entries, and posted with it.
C20_Witness ==
    /\ jcall.args.op = "create_weight_entry"
    /\ jcall.args.user_id = None
    /\ jcall.diaper_entries.kind = "json"
    /\ Len(jcall.diaper_entries.entries) = 2
    /\ jcall.diaper_entries.entries[1].userId = 2
    /\ Len(jlog) = 2
    /\ IsDiaperQuery(jlog[1], jcall.args.baby_id, now)
    /\ jlog[2].method = "post"
    /\ jlog[2].json.userId = 2
    /\ JDone
    /\ jresult.kind = "ok"

\* The caller passed a user id, or the tracking query gave one.
HasUserId ==
    \/ jcall.args.user_id \notin {None, Blank}
    \/ /\ jcall.diaper_entries.kind = "json"
       /\ jcall.diaper_entries.entries # <<>>
       /\ jcall.diaper_entries.entries[1].userId \notin {None, Blank}

\* The body is the one create_diaper_entry is to post for arguments a.
IsDiaperBody(b, a) ==
    /\ b.type = "diaper"
    /\ b.data.types = a.diaper_types
    /\ b.startTime = a.start_time.sec
    /\ b.babyId = a.baby_id
    /\ ("note" \in DOMAIN b) <=> (a.note \notin {None, Blank})
    /\ ("note" \in DOMAIN b) => b.note = a.note

ValidDiaperCall ==
    /\ jcall.args.op = "create_diaper_entry"
    /\ \A i \in DOMAIN jcall.args.diaper_types :
           jcall.args.diaper_types[i] \in {"pee", "poo"}

\* C22, as stated: create_diaper_entry with valid diaper types issues exactly
\* one POST, whose body has type diaper, data.types the list as given,
\* startTime the start time to the second, babyId the baby id given, and a
\* note only when a non-empty note was given.
C22_DiaperPostsOnce ==
    (ValidDiaperCall /\ JDone) =>
        /\ Cardinality(Posts(jlog)) = 1
        /\ \A i \in Posts(jlog) : IsDiaperBody(jlog[i].json, jcall.args)

\* C22, amended: such a call issues at most one POST, with that body; once
\* it has ended it has issued exactly one if it was given a user id or the
\* tracking query supplied one, and none otherwise, failing with a Value
\* error.
C22_DiaperPostsOnceWithUserId ==
    ValidDiaperCall =>
        /\ Cardinality(Posts(jlog)) <= 1
        /\ \A i \in Posts(jlog) : IsDiaperBody(jlog[i].json, jcall.args)
        /\ (JDone /\ HasUserId) => Cardinality(Posts(jlog)) = 1
        /\ (JDone /\ ~HasUserId) =>
               Posts(jlog) = {} /\ jresult.kind = "ValueError"

\* A diaper entry for poo and pee, with a note, a start time that has
\* microseconds and a user id, was posted once and accepted.
C22_Witness ==
    /\ ValidDiaperCall
    /\ jcall.args.diaper_types = <<"poo", "pee">>
    /\ jcall.args.note = 7
    /\ jcall.args.start_time.usec # 0
    /\ jcall.args.user_id = 1
    /\ JDone
    /\ jresult.kind = "ok"
    /\ Len(jlog) = 1
    /\ jlog[1].method = "post"
    /\ IsDiaperBody(jlog[1].json, jcall.args)

----------------------------------------------------------------------------
\* Unit conversion, checked under SpecConvert.

\* C21: an imperial value of at most 2 decimals (0.00 to 12.00 here),
\* converted to metric by the create operations' rule (times 29.5735, 28.3495
\* or 2.54, rounded to 2 decimals) and back (divided by the same factor,
\* rounded to 2 decimals), comes back as the value given.
C21_RoundTrip ==
    conv.stage = "back" => conv.back = conv.imperial

\* 4.5 oz has become 133.08 ml and come back as 4.5 oz.
C21_Witness ==
    /\ conv.stage = "back"
    /\ conv.factor = 295735
    /\ conv.imperial = 450
    /\ conv.metric = 13308
    /\ conv.back = 450

----------------------------------------------------------------------------
\* Request Gateway claims, checked under Spec.

\* The callers whose request() has a dispatch with the Transport.
Dispatching == {c \in Callers : pc[c] \in {"net1", "net2"}}

\* The callers whose request() is inside "async with self._lock".
InsideGate == {c \in Callers : pc[c] \in {"net1", "net2", "auth_gate", "auth_401"}}

\* The authentication tasks whose exchange with the service is under way.
Exchanging == {i \in TaskIds : tasks[i].st \in {"login", "refresh"}}

HandedOverAfterFull(c, d) ==
    /\ c # d
    /\ upc[c] = "idle"
    /\ ucall[c].path = "full"
    /\ ucall[c].result = "ok"
    /\ upc[d] = "wake"

\* C24: when a call that waited on the update gate is resumed right after
\* the holder completed a full refresh successfully, it takes the
\* session-only path and issues no device-list or device-config request
\* (then or in any later step of that call), so the device-list and
\* device-config requests of the two calls are those of the first call's
\* one full cycle.
C24_OverlapCollapses ==
    [][\A c, d \in Callers :
          /\ (HandedOverAfterFull(c, d) /\ EnterStep(d)) =>
                 /\ last_state_update = now
                 /\ ucall'[d].path = "throttled"
                 /\ CountOf(ucall'[d].log, "devices") = 0
                 /\ CountOf(ucall'[d].log, "config") = 0
                 /\ CountOf(ucall[c].log, "devices") >= 1
                 /\ CountOf(ucall[c].log, "config") = CountOf(ucall[c].log, "session")
          /\ (UpdateStep(d) /\ ucall'[d].path = "throttled")
                 => OnlySessions(ucall'[d].log)]_vars

\* A call made while another held the gate, resumed at the clock reading at
\* which the holder's full refresh was stamped, now fetching a session on
\* the session-only path.
C24_Witness ==
    \E d \in Callers :
        /\ upc[d] = "session_t"
        /\ ucall[d].path = "throttled"
        /\ ucall[d].made < ucall[d].call_dt
        /\ ucall[d].call_dt = last_state_update
        /\ \E sn \in Serials : devices[sn] # None

\* The serial numbers that have an entry in the registry.
Registered(devs) == {sn \in Serials : devs[sn] # None}

\* C25: no step removes a serial number from the registry or replaces the
\* entity of one that is there; an entry appears only in a step of a full
\* refresh that has come to that serial number in the fetched list, with a
\* newly constructed entity; whenever a full refresh asks for a device's
\* config the device listed has a serial number and is in the registry; and
\* entities are constructed for new serial numbers only, so a listed device
\* without serial number gets none.
C25_RegistryNeverShrinks ==
    [][/\ \A sn \in Registered(devices) : devices'[sn] = devices[sn]
       /\ \A sn \in Registered(devices') \ Registered(devices) :
             /\ devices'[sn] = entities + 1
             /\ \E c \in Callers :
                   /\ UpdateStep(c)
                   /\ ucall'[c].path = "full"
                   /\ upc'[c] = "config"
                   /\ Head(ucall'[c].todo) = sn
       /\ \A c \in Callers :
             (UpdateStep(c) /\ upc'[c] = "config") =>
                 Head(ucall'[c].todo) \in Registered(devices')
       /\ entities' = entities + Cardinality(Registered(devices') \ Registered(devices))
       /\ entities = Cardinality(Registered(devices))]_vars

\* Two full refreshes have run: the first listed serial 1, the second a
\* device without serial number and serial 2; both serials are registered,
\* serial 1 with the entity it got first.
C25_Witness ==
    /\ devices[1] = 1
    /\ devices[2] = 2
    /\ entities = 2
    /\ \E c \in Callers :
          /\ upc[c] = "idle"
          /\ ucall[c].path = "full"
          /\ ucall[c].result = "ok"

\* ---------------------------------------------------------------------
\* Dispatches of one request() call, checked under Spec
\* ---------------------------------------------------------------------

\* The step in which request() of caller c sends its first dispatch, and the
\* one in which it sends the retry.
FirstDispatch(c) == pc[c] # "net1" /\ pc'[c] = "net1"

SecondDispatch(c) == pc[c] # "net2" /\ pc'[c] = "net2"

\* The step in which a blocking authenticate awaited by request() of caller
\* c ends, with the result the awaited task had.
BlockingAuthEnds(c, res) ==
    /\ pc[c] \in {"auth_gate", "auth_401"}
    /\ pc'[c] # pc[c]
    /\ Head(readyQ).res = res

\* C26: a request() call sends its first dispatch before any other dispatch
\* of that call; it sends the retry only after a 401 on the first dispatch
\* and a blocking authenticate that succeeded; whatever the retry's outcome
\* the call ends with it; and a blocking authenticate that fails ends the
\* call with an error, with no dispatch in that step.
C26_AtMostTwoDispatches ==
    [][\A c \in Callers :
          /\ FirstDispatch(c) =>
                 /\ pc[c] \notin {"net2", "auth_401"}
                 /\ call'[c].first = "none"
                 /\ call'[c].second = "none"
          /\ SecondDispatch(c) =>
                 /\ call'[c].first = "e401"
                 /\ call'[c].second = "none"
                 /\ \/ BlockingAuthEnds(c, "ok") /\ pc[c] = "auth_401"
                    \/ /\ pc[c] = "net1"
                       /\ authentication_task # None
                       /\ tasks[authentication_task].st = "done"
                       /\ tasks[authentication_task].res = "ok"
          /\ (pc[c] = "net2" /\ pc'[c] # "net2") =>
                 /\ pc'[c] = "idle"
                 /\ call'[c].second = "e401" =>
                        call'[c].result \in {"AuthenticationError",
                                             "InvalidCredentialsError"}
          /\ (pc[c] = "net1" /\ pc'[c] # "net1") =>
                 pc'[c] \in {"idle", "auth_401", "net2"}
          /\ \A res \in TaskResults \ {"ok"} :
                 BlockingAuthEnds(c, res) =>
                     /\ pc'[c] = "idle"
                     /\ call'[c].result \notin {"ok", "none"}]_vars

\* A request() call that got a 401 on its first dispatch, re-authenticated,
\* got a 401 on the retry and ended with an Authentication error.
C26_Witness ==
    \E c \in Callers :
        /\ pc[c] = "idle"
        /\ call[c].first = "e401"
        /\ call[c].second = "e401"
        /\ call[c].result = "AuthenticationError"

\* The step in which a dispatch of request() of caller c ends with a 401.
Gets401(c) ==
    \/ pc[c] = "net1" /\ pc'[c] # "net1" /\ call'[c].first = "e401"
    \/ pc[c] = "net2" /\ pc'[c] # "net2" /\ call'[c].second = "e401"

\* C27: the step in which request() gets a 401, on the first dispatch or on
\* the retry, leaves the Credential with bearer token, refresh token and
\* expiry null and with the last-refreshed timestamp it had before.
C27_ClearedKeepsLastRefreshed ==
    [][\A c \in Callers :
          Gets401(c) =>
              /\ security_token'[1] = None
              /\ security_token'[2] = None
              /\ security_token'[3] = None
              /\ security_token'[4] = security_token[4]]_vars

\* After a 401 on the retry the Credential is cleared and still carries the
\* time of the login that preceded.
C27_Witness ==
    \E c \in Callers :
        /\ pc[c] = "idle"
        /\ call[c].second = "e401"
        /\ security_token[1] = None
        /\ security_token[3] = None
        /\ security_token[4] # None

\* ---------------------------------------------------------------------
\* The path an authentication task takes, checked under Spec
\* ---------------------------------------------------------------------

\* The first step of authentication task i, in which it picks its path.
TaskPicksPath(i) == tasks[i].st = "created" /\ tasks'[i].st \in {"login", "refresh"}

\* C28: an authentication task takes the refresh path exactly when the
\* Credential's expiry is set and has passed and the Credential holds a
\* refresh token; otherwise it performs a fresh login.
C28_RefreshNeedsRefreshToken ==
    [][\A i \in TaskIds :
          TaskPicksPath(i) =>
              (tasks'[i].st = "refresh"
                  <=> /\ security_token[3] # None
                      /\ security_token[3] < now
                      /\ security_token[2] # None)]_vars

\* The step in which authentication task i completes successfully.
TaskSucceeds(i) ==
    /\ HeadIs("task", i)
    /\ tasks[i].st \in {"login", "refresh"}
    /\ tasks'[i].st = "done"
    /\ tasks'[i].res = "ok"

\* No authentication task is created in the step.
NoTaskStarted == \A i \in TaskIds : tasks[i].st = "free" => tasks'[i].st = "free"

\* C29: when an authentication task completes successfully at clock reading
\* t with declared lifetime L, the Credential holds the token of that
\* exchange with expiry t + floor(L/2); and a request that runs the gate's
\* expiry check with the expiry set takes the expiry branch exactly when the
\* clock has reached the expiry, starting no task before.
C29_ExpiryIsHalfLifetime ==
    [][/\ \A i \in TaskIds :
             TaskSucceeds(i) =>
                 /\ security_token'[1] = minted'
                 /\ \E L \in ExpiresInValues : security_token'[3] = now + (L \div 2)
       /\ \A c \in Callers :
             (GateStep(c) /\ security_token[3] # None) =>
                 /\ now >= security_token[3]
                       <=> call'[c].branch \in {"blocking", "nonblocking"}
                 /\ now < security_token[3] => NoTaskStarted]_vars

\* ---------------------------------------------------------------------
\* Harvest of the background task, checked under Spec
\* ---------------------------------------------------------------------

\* The step in which request() of caller c gets the gate and runs what it
\* does at its entry (harvest, expiry check).
EntersGate(c) ==
    \/ StartStep(c) /\ call'[c].op = "request" /\ pc'[c] # "lock_wait"
    \/ pc[c] = "lock_wait" /\ pc'[c] # "lock_wait"

\* C30: a request that enters the gate while the task slot holds a finished
\* task takes that task out of the slot; when the task had succeeded, been
\* cancelled or failed with a Request or Authentication error the request
\* goes on to the expiry check and then dispatches or waits for a blocking
\* authenticate. When the slot holds a task that has not finished, the
\* step leaves it in the slot and creates no task.
C30_HarvestSwallowsTaskErrors ==
    [][\A c \in Callers :
          (EntersGate(c) /\ authentication_task # None) =>
              LET i == authentication_task
              IN /\ tasks[i].st = "done" =>
                        /\ authentication_task' # i
                        /\ call'[c].harvested = tasks[i].res
                        /\ tasks[i].res \in {"ok", "CancelledError", "RequestError",
                                             "AuthenticationError"}
                              => /\ call'[c].branch # "none"
                                 /\ pc'[c] \in {"net1", "auth_gate"}
                 /\ tasks[i].st # "done" =>
                        /\ authentication_task' = i
                        /\ NoTaskStarted]_vars

\* A request has harvested a cancelled task that a non-blocking
\* authenticate had left in the slot and, the Credential being empty, waits
\* for the new task it has started.
C30_Witness ==
    \E c \in Callers :
        /\ pc[c] = "auth_gate"
        /\ call[c].harvested = "CancelledError"
        /\ call[c].branch = "blocking"
        /\ authentication_task # None
        /\ tasks[authentication_task].st = "created"

\* ---------------------------------------------------------------------
\* Errors of the Journal Client, checked under SpecJournal
\* ---------------------------------------------------------------------

\* C31: a create operation that has ended with a Value error raised for its
\* arguments (an invalid type, a missing measurement, a bottle feeding
\* without amount) has made no network call, the user-id query included.
C31_ArgumentErrorsBeforeNetwork ==
    (/\ jcall.args.op \in CreateOps
     /\ JDone
     /\ jresult.kind = "ValueError"
     /\ jresult.cause \in {"argument", "amount"}) => MadeNoCall

\* C32: when a request of a Journal Client operation, the user-id query
\* included, has ended in a Request or Authentication error, the operation
\* has ended with an error of that same kind.
C32_GatewayErrorsUnchanged ==
    /\ jcall.diaper_entries.kind \in ErrorKinds =>
           JDone /\ jresult.kind = jcall.diaper_entries.kind
    /\ (JDone /\ jresult.cause \in ErrorKinds) => jresult.kind = jresult.cause

\* ---------------------------------------------------------------------
\* Endpoint fallback and failed refreshes, checked under SpecDevices
\* ---------------------------------------------------------------------

\* The step in which the fetch caller c waits for comes back with an error.
FetchFails(c) ==
    /\ upc[c] \in FetchStages
    /\ UpdateStep(c)
    /\ ucall'[c].last = "fail"

\* The requests to the legacy paths.
LegacyStages == {"account_legacy", "baby_legacy", "devices_legacy"}

\* C33, as stated: whichever fetch fails (device list, device config,
\* account, baby, session), a failure of the first request is followed by a
\* request to the legacy path of the same endpoint, and the operation fails
\* only when that legacy request has failed.
C33_EveryFetchFallsBack ==
    [][\A c \in Callers :
          FetchFails(c) =>
              IF upc[c] \in LegacyStages
              THEN UpdateEnds(c) /\ ucall'[c].result = "error"
              ELSE /\ ~UpdateEnds(c)
                   /\ upc'[c] \in FetchStages
                   /\ ucall'[c].log = Append(ucall[c].log, ucall[c].log[Len(ucall[c].log)])]_vars

\* C33, amended: for the account, baby and device-list fetches a failure of
\* the newer endpoint is followed by a request to the legacy path, and the
\* operation fails, in that same step, when the legacy request fails; the
\* device-config and session fetches make one request and the operation
\* fails when it fails.
C33_ThreeFetchesFallBack ==
    [][\A c \in Callers :
          FetchFails(c) =>
              /\ upc[c] = "account_v10" =>
                     upc'[c] = "account_legacy"
                     /\ ucall'[c].log = Append(ucall[c].log, "account")
              /\ upc[c] = "babies_v10" =>
                     upc'[c] = "baby_legacy"
                     /\ ucall'[c].log = Append(ucall[c].log, "baby")
              /\ upc[c] = "devices_v11" =>
                     upc'[c] = "devices_legacy"
                     /\ ucall'[c].log = Append(ucall[c].log, "devices")
              /\ upc[c] \in LegacyStages \cup {"config", "session_f", "session_t"} =>
                     /\ UpdateEnds(c)
                     /\ ucall'[c].result = "error"
                     /\ ucall'[c].log = ucall[c].log]_vars

\* A call has failed after the v11 device list and then the legacy device
\* list both came back with an error.
C33_Witness ==
    \E c \in Callers :
        /\ upc[c] = "idle"
        /\ ucall[c].result = "error"
        /\ ucall[c].last = "fail"
        /\ Len(ucall[c].log) >= 2
        /\ ucall[c].log[Len(ucall[c].log)] = "devices"
        /\ ucall[c].log[Len(ucall[c].log) - 1] = "devices"

\* ---------------------------------------------------------------------
\* Rejected credentials, checked under Spec
\* ---------------------------------------------------------------------

\* The step in which a fresh login of task i ends with the identity
\* provider's refusal: a status other than 200, which api.py:270-272 turns
\* into a Request error.
LoginRefused(i) ==
    /\ HeadIs("task", i)
    /\ tasks[i].st = "login"
    /\ tasks'[i].st = "done"
    /\ tasks'[i].res = "RequestError"

\* C34: once the identity provider has refused the stored username and
\* password, the client is in the state in which authenticate() and
\* request() fail with InvalidCredentials before any network call (the
\* credentials are flagged invalid, or dropped), and it stays there until
\* the username or the password is assigned.
C34_RejectedCredentialsFailFast ==
    [][/\ \A i \in TaskIds :
             LoginRefused(i) =>
                 \/ invalid_credentials'
                 \/ credentials'.username = None
                 \/ credentials'.password = None
       /\ (invalid_credentials /\ ~invalid_credentials') =>
              credentials' # credentials]_vars

\* ---------------------------------------------------------------------
\* The Authorization header of gated dispatches
\* ---------------------------------------------------------------------

\* C35: whenever a request() call has a dispatch under way, the first or
\* the retry, the Authorization header it was sent with is not null.
C35_DispatchCarriesToken ==
    \A c \in Callers : pc[c] \in {"net1", "net2"} => call[c].hdr # None

\* ---------------------------------------------------------------------
\* Progress through the request gate, checked under FairSpec
\* ---------------------------------------------------------------------

\* C36: the gate is only ever held by a request() call, never by an
\* authentication task; a request that blocks on authenticate while it
\* holds the gate gets on; and a request that waits for the gate gets it
\* (it leaves the wait only by entering the gate).
C36_GateIsPassedOn ==
    /\ [](lock \in Callers \cup {None})
    /\ \A c \in Callers :
          /\ (pc[c] \in {"auth_gate", "auth_401"})
                ~> (pc[c] \notin {"auth_gate", "auth_401"})
          /\ (pc[c] = "lock_wait") ~> (pc[c] # "lock_wait")

\* A request waits for the gate while the request that holds it blocks on
\* an authentication task whose exchange is under way.
C36_Witness ==
    \E c, d \in Callers :
        /\ pc[c] = "lock_wait"
        /\ pc[d] = "auth_gate"
        /\ lock = d
        /\ authentication_task # None
        /\ tasks[authentication_task].st \in {"login", "refresh"}

----------------------------------------------------------------------------
\* A send of the request was answered with a 401.
Saw401 == \E i \in 1..Len(tlog) : tlog[i].ev = "e401"

\* C37: one request() causes at most 10 HTTP sends of the caller's request,
\* at most 5 in each of its at most two dispatches, and at most 5 when no
\* send was answered with a 401.
C37_AtMostTenSends ==
    /\ AttemptsMade <= 10
    /\ SendsBegun <= 2
    /\ attempt <= 5
    /\ ~Saw401 => AttemptsMade <= 5

\* The request has ended after ten sends: four retryable failures and a 401,
\* a login, and five attempts of the retry.
C37_Witness ==
    /\ AttemptsMade = 10
    /\ pc[1] = "idle"
    /\ call[1].op = "request"
    /\ call[1].first = "e401"
    /\ call[1].second # "none"

----------------------------------------------------------------------------
\* The step in which authentication task i ends without success.
TaskFails(i) ==
    /\ HeadIs("task", i)
    /\ tasks[i].st \in {"login", "refresh"}
    /\ tasks'[i].st = "done"
    /\ tasks'[i].res # "ok"

\* C38 as stated: when an authentication task fails, the Credential is
\* exactly what it was when the task started executing.
C38_FailedTaskLeavesCredential ==
    [][\A i \in TaskIds : TaskFails(i) => security_token' = tasks[i].was]_vars

\* The Credential is whole: token, refresh token and expiry all null, or
\* token and expiry both set.
Whole(st) ==
    \/ st[1] = None /\ st[2] = None /\ st[3] = None
    \/ st[1] # None /\ st[3] # None

\* C38, amended: when an authentication task fails, the task has written
\* nothing: the step in which it fails leaves the Credential exactly as it
\* finds it (what others did while the task ran, a clear after a 401 or the
\* store of another task, stays), and the Credential is whole, with no
\* partially written token, refresh token or expiry.
C38_FailedTaskWritesNothing ==
    [][\A i \in TaskIds :
          TaskFails(i) => /\ security_token' = security_token
                          /\ Whole(security_token')]_vars

\* A task has failed with a Request or Authentication error while the client
\* held a token, and the token is still there.
C38_Witness ==
    \E i \in TaskIds :
        /\ tasks[i].st = "done"
        /\ tasks[i].res \in {"RequestError", "AuthenticationError"}
        /\ security_token[1] # None
        /\ security_token[3] # None

----------------------------------------------------------------------------
\* The step in which update_device_info of caller c ends with an error on the
\* full-refresh path.
FullRefreshFails(c) ==
    /\ UpdateEnds(c)
    /\ ucall'[c].path = "full"
    /\ ucall'[c].result = "error"

\* The call of caller c that has just ended failed on the full-refresh path.
JustFailedFull(c) ==
    /\ upc[c] = "idle"
    /\ ucall[c].path = "full"
    /\ ucall[c].result = "error"

\* C39: a call that fails on the full-refresh path leaves last_state_update
\* as it was, at least the interval before the time of that call, and
\* releases the update gate; the call that enters the gate next takes the
\* full-refresh path again; and the first call on a new client takes the
\* full-refresh path.
C39_FailedRefreshIsRepeated ==
    [][\A c \in Callers :
          /\ FullRefreshFails(c) =>
                 /\ last_state_update' = last_state_update
                 /\ last_state_update' # None
                 /\ last_state_update' + DEFAULT_DEVICE_UPDATE_INTERVAL
                        <= ucall'[c].call_dt
                 /\ ucall'[c].call_dt <= now'
                 /\ updLock' # c
          /\ \A d \in Callers :
                 (JustFailedFull(c) /\ EnterStep(d)) => ucall'[d].path = "full"
          /\ (EnterStep(c) /\ last_state_update = None) => ucall'[c].path = "full"]_vars

\* A call has just failed on the full-refresh path, at a fetch that failed
\* after a device had been registered, and the update gate has gone to the
\* call that waited for it.
C39_Witness ==
    \E c, d \in Callers :
        /\ JustFailedFull(c)
        /\ ucall[c].last = "fail"
        /\ upc[d] = "wake"
        /\ updLock = d
        /\ entities > 0

----------------------------------------------------------------------------
\* The task slot holds a task that took the refresh path and has succeeded.
RefreshSucceeded ==
    /\ authentication_task # None
    /\ tasks[authentication_task].st = "done"
    /\ tasks[authentication_task].res = "ok"
    /\ tasks[authentication_task].path = "refresh"

\* C40: once a background refresh has succeeded, a request made before the
\* refreshed token's expiry (at least DEFAULT_TOKEN_REFRESH after the
\* refresh, api.py:370-374) starts no authentication task.
C40_RefreshIsNotRepeated ==
    [][\A c \in Callers :
          (/\ RefreshSucceeded
           /\ now < DEFAULT_TOKEN_REFRESH
           /\ security_token[1] # None
           /\ EntersGate(c))
              => NoTaskStarted]_vars

====
